---- MODULE Spec2Model ----
(***************************************************************************)
(* Model of the edge authentication mediator (pi_api_server.py, sga.py).   *)
(*                                                                         *)
(* Spec       the job queue of pi_api_server.py: producers running         *)
(*            enqueue_and_wait, the serial_worker thread, response_map,    *)
(*            job_start_times and the wall clock.                          *)
(* SpecCodec  the byte codec of sga.py: the pair-wise hex decoding of      *)
(*            do_ser_transfer_l, the disassemble_l_* parsers, get_pccid    *)
(*            and do_rw_only, applied to the responses the link delivers.  *)
(* SpecAuth   authenticate_logic with do_retrieve_result's polling loop;   *)
(*            SpecAuthFair adds the fairness of a running worker thread.   *)
(* SpecLogic  one request from its Flask endpoint through the worker and   *)
(*            its logic function to the HTTP response, with the LED lines. *)
(* SpecFrame  the assemble_* frames of sga.py and intToList.               *)
(* SpecMain   main() of Authentication.py, one authentication attempt.     *)
(* SpecLive   Spec with the fairness of running threads and a running      *)
(*            clock.                                                       *)
(* SpecDevice get_identity jobs run one after another against a device     *)
(*            whose successive replies are scripted, with a clock.         *)
(* SpecWire   the hex text written and read by do_ser_transfer_l.          *)
(* SpecMqtt   on_message, the pub/sub callback.                            *)
(***************************************************************************)
EXTENDS Integers, Sequences, FiniteSets, TLC

VARIABLES
    \* ---- pi_api_server.py: shared state
    now,              \* time.time(), in seconds
    command_queue,    \* Queue(): sequence of job tuples, head first
    response_map,     \* dict job_id -> result
    job_start_times,  \* dict job_id -> start time
    issued,           \* number of uuid4() values drawn so far
    \* ---- serial_worker threads
    w_pc, w_job, w_result, w_exc,
    ser,              \* per worker: state of the Serial object of do_ser_transfer_l
    \* ---- producers (HTTP request threads, pub/sub callback) in enqueue_and_wait
    p_pc, p_req, p_job_id, p_start, p_result,
    \* ---- history of the run (not program state)
    putOrder, startOrder, storeOrder,  \* job tuples in put / start / store order
    writes,           \* job_id -> number of writes to response_map[job_id]
    stored,           \* job_id -> last result written under it
    finished,         \* job tuples the worker has finished with
    raisedJobs,       \* job tuples whose logic function raised
    \* ---- sga.py codec (SpecCodec)
    c_pc, resp_s, c_op, c_out,
    \* ---- authenticate_logic / do_retrieve_result (SpecAuth)
    a_pc, a_args, a_status, a_claimid, a_responsedata, a_polls, a_out,
    calls,            \* history: cloud endpoint -> number of requests sent to it
    \* ---- the three LED lines driven by set_led_status
    led,              \* level of the green, red and yellow GPIO lines
    led_pc,           \* 0, or the GPIO.output of set_led_status that is next (1..3)
    led_target,       \* argument of the set_led_status call in progress
    \* ---- one request through an endpoint, the worker and a logic function (SpecLogic)
    h_pc, h_fn, h_data, h_http, h_body,   \* the Flask endpoint handling the request
    j_pc, j_result,                       \* the job made for it and its result
    l_pc, l_arg, l_out,                   \* get_identity_logic, get_cw_logic or get_rw_logic
    \* ---- frame assembly of sga.py and intToList of Authentication.py (SpecFrame)
    f_pc, f_number, f_list, f_op, f_out,
    \* ---- main() of Authentication.py (SpecMain)
    m_pc,
    m_pccid, m_cw, m_transactionid, m_rw, m_transactionidresponse,  \* its local variables
    m_authenticationresult,
    m_log,            \* history: the calls made so far with their arguments, in order
    m_polled,         \* history: the transaction ids whose status was requested
    \* ---- get_identity jobs against a scripted device (SpecDevice)
    d_pc,
    d_script,         \* the replies the device will give to the reads to come
    d_script0,        \* history: the script at the start
    d_pending,        \* get_identity jobs not yet started
    d_reply,          \* resp_s of the transfer in progress
    d_reads,          \* history: number of ser.read calls so far
    d_results,        \* history: the results of the jobs finished, in order
    d_now,            \* the clock, in units of the read timeout
    d_last_close,     \* history: clock at the last ser_close, -1 before the first
    d_gap,            \* history: clock between the last ser_close and the ser_open after it
    \* ---- the text on the serial link (SpecWire)
    x_pc, x_list, x_fmt, x_text, x_out,
    \* ---- on_message (SpecMqtt)
    q_pc, q_msg, q_fn, q_arg, q_timeout, q_response,
    q_published       \* history: the payloads handed to client.publish, in order

serverVars == <<now, command_queue, response_map, job_start_times, issued,
                w_pc, w_job, w_result, w_exc, ser,
                p_pc, p_req, p_job_id, p_start, p_result,
                putOrder, startOrder, storeOrder, writes, stored, finished,
                raisedJobs>>
codecVars == <<c_pc, resp_s, c_op, c_out>>
authVars == <<a_pc, a_args, a_status, a_claimid, a_responsedata, a_polls, a_out>>
frameVars == <<f_pc, f_number, f_list, f_op, f_out>>
ledVars == <<led, led_pc, led_target>>
logicVars == <<h_pc, h_fn, h_data, h_http, h_body, j_pc, j_result, l_pc, l_arg, l_out>>
mainVars == <<m_pc, m_pccid, m_cw, m_transactionid, m_rw, m_transactionidresponse,
              m_authenticationresult, m_log, m_polled>>
deviceVars == <<d_pc, d_script, d_script0, d_pending, d_reply, d_reads, d_results, d_now,
                d_last_close, d_gap>>
wireVars == <<x_pc, x_list, x_fmt, x_text, x_out>>
mqttVars == <<q_pc, q_msg, q_fn, q_arg, q_timeout, q_response, q_published>>
vars == <<serverVars, codecVars, authVars, calls, ledVars, logicVars, frameVars, mainVars,
          deviceVars, wireVars, mqttVars>>

\* what the steps of one part of the program leave alone
nonServerVars == <<codecVars, authVars, calls, ledVars, logicVars, frameVars, mainVars,
                   deviceVars, wireVars, mqttVars>>
nonCodecVars == <<serverVars, authVars, calls, ledVars, logicVars, frameVars, mainVars,
                  deviceVars, wireVars, mqttVars>>
nonAuthVars == <<serverVars, codecVars, logicVars, frameVars, mainVars,
                 deviceVars, wireVars, mqttVars>>
nonFrameVars == <<serverVars, codecVars, authVars, calls, ledVars, logicVars, mainVars,
                  deviceVars, wireVars, mqttVars>>
nonLogicVars == <<serverVars, codecVars, frameVars, mainVars, deviceVars, wireVars, mqttVars>>
nonMainVars == <<serverVars, codecVars, authVars, calls, led_pc, led_target, logicVars,
                 frameVars, deviceVars, wireVars, mqttVars>>
nonDeviceVars == <<serverVars, codecVars, authVars, calls, ledVars, logicVars, frameVars,
                   mainVars, wireVars, mqttVars>>
nonWireVars == <<serverVars, codecVars, authVars, calls, ledVars, logicVars, frameVars,
                 mainVars, deviceVars, mqttVars>>
nonMqttVars == <<serverVars, codecVars, authVars, calls, ledVars, logicVars, frameVars,
                 mainVars, deviceVars, wireVars>>

----------------------------------------------------------------------------
(* Bounds of the model *)

NumProducers == 2     \* concurrent callers of enqueue_and_wait
MaxTime == 400        \* seconds of wall clock followed

(* Program constants *)

JOB_MAX_TIME == 300
\* mutant: a second worker thread is started
TwoWorkerThreads == 1 + 1
\* line 142: the one threading.Thread(target=serial_worker) of the process
NumWorkerThreads == 1
TIMEOUT_STATUS == 10
TIMEOUT_DEVICE == 180
TIMEOUT_AUTH == 240

\* the clock is sampled in steps longer than the device-job wait, so that one
\* step passes the 10 s and 180 s waits and two pass the 240 s wait and JOB_MAX_TIME
TickLen == TIMEOUT_DEVICE + 20

Producers == 1..NumProducers
Workers == 1..NumWorkerThreads

----------------------------------------------------------------------------
(* dict helpers *)

DictSet(d, k, v) == [x \in (DOMAIN d) \cup {k} |-> IF x = k THEN v ELSE d[x]]
DictDel(d, k) == [x \in (DOMAIN d) \ {k} |-> d[x]]
EmptyDict == [x \in {} |-> 0]

----------------------------------------------------------------------------
(* Jobs and results *)

\* The (fn, payload, timeout) triples the front-ends pass to enqueue_and_wait.
\* payload "ok": the keys the endpoint tests are present; whether their values
\* are empty is decided when the logic function tests them.
\* "reboot" stands for a functionName on_message does not know.
Requests ==
    { [fn |-> "status", payload |-> "ok", timeout |-> TIMEOUT_STATUS],
      [fn |-> "get_identity", payload |-> "ok", timeout |-> TIMEOUT_DEVICE],
      [fn |-> "get_rw", payload |-> "ok", timeout |-> TIMEOUT_DEVICE],
      [fn |-> "authenticate", payload |-> "ok", timeout |-> TIMEOUT_AUTH],
      [fn |-> "reboot", payload |-> "ok", timeout |-> TIMEOUT_DEVICE] }

NoRequest == [fn |-> "none", payload |-> "none", timeout |-> 0]
NoJob == [job_id |-> 0, fn |-> "none", payload |-> "none", owner |-> 0]

\* A result dict: has_success says whether it has a "success" key, error is the
\* "error" text ("" when absent); owner is the producer whose job produced it
\* (history, not part of the dict).
Result(hs, s, e, o) == [has_success |-> hs, success |-> s, error |-> e, owner |-> o]
NoResult == Result(FALSE, FALSE, "none", 0)

status_logic(o) == Result(FALSE, FALSE, "", o)
UnknownFunction(o) == Result(TRUE, FALSE, "Unknown function", o)
Succeeded(o) == Result(TRUE, TRUE, "", o)
Denied(o) == Result(TRUE, FALSE, "", o)
StalledResult(o) == Result(TRUE, FALSE, "Job exceeded maximum time (300s)", o)
TimedOutResult(o) == Result(TRUE, FALSE, "Operation timed out - device may be unresponsive", o)

\* str(e) of the exceptions the logic functions raise
ErrorText(exc) ==
    CASE exc = "ValueError" -> "input is required or not hexadecimal"
      [] exc = "SerialException" -> "could not open or use port"
      [] exc = "CloudError" -> "cloud request failed"
      [] exc = "ConnectionError" -> "connection to the cloud failed"
      [] exc = "KeyError" -> "key missing in the cloud's answer"
      [] exc = "AttributeError" -> "module 'sga' has no attribute 'intToList'"
      [] exc = "TypeError" -> "argument of type 'NoneType' is not iterable"
      [] OTHER -> "error"

ExceptionClasses == {"ValueError", "SerialException", "CloudError"}

\* mutant: the inner handler catches ValueError only
CaughtValueErrorOnly(exc) == exc = "ValueError"
\* `except Exception` of the inner try: every class the logic functions raise
CaughtByInnerExcept(exc) == exc \in ExceptionClasses

\* mutant: every call yields the same id
uuid4_constant(n) == 1
\* str(uuid.uuid4()): 122 random bits, modelled as a value never drawn before
uuid4(n) == n + 1

\* mutant: the entry is not deleted
JobStartTimesKept(jst, jid) == jst
\* `del job_start_times[job_id]` after the store
JobStartTimesAfterStore(jst, jid) == DictDel(jst, jid)

\* mutant: the newest job is taken
QueueTakeLast(q) == [job |-> q[Len(q)], rest |-> SubSeq(q, 1, Len(q) - 1)]
\* command_queue.get(): queue.Queue is first-in first-out
QueueGet(q) == [job |-> Head(q), rest |-> Tail(q)]

----------------------------------------------------------------------------
(* enqueue_and_wait: one producer per front-end request *)

\* lines 250-258: draw the job id, put the tuple, note the start time
Enqueue(p) ==
    /\ p_pc[p] = "idle"
    /\ \A q \in Producers : q < p => p_pc[q] # "idle"   \* p is the p-th caller
    /\ \E req \in Requests :
         LET jid == uuid4(issued)
             job == [job_id |-> jid, fn |-> req.fn, payload |-> req.payload, owner |-> p]
         IN /\ p_req' = [p_req EXCEPT ![p] = req]
            /\ p_job_id' = [p_job_id EXCEPT ![p] = jid]
            /\ command_queue' = Append(command_queue, job)
            /\ putOrder' = Append(putOrder, job)
    /\ issued' = issued + 1
    /\ p_start' = [p_start EXCEPT ![p] = now]
    /\ p_pc' = [p_pc EXCEPT ![p] = "wait"]
    /\ UNCHANGED <<now, response_map, job_start_times, w_pc, w_job, w_result, w_exc,
                   ser, p_result, startOrder, storeOrder, writes, stored, finished,
                   raisedJobs>>

\* mutant: the wait loop has no timeout check
NeverTimedOut(elapsed, timeout) == FALSE

\* lines 270-272: the timeout check of the wait loop
TimedOut(elapsed, timeout) == elapsed > timeout

\* lines 260-284, one turn of the wait loop: under the lock, pop and return
\* the result if it is there; else return the timeout error once elapsed >
\* timeout; else sleep and look again. Line 270 reads only the clock and the
\* thread's own variables, so the turn is taken as one step.
PollResponse(p) ==
    /\ p_pc[p] = "wait"
    /\ IF p_job_id[p] \in DOMAIN response_map
       THEN /\ p_result' = [p_result EXCEPT ![p] = response_map[p_job_id[p]]]
            /\ response_map' = DictDel(response_map, p_job_id[p])
            /\ p_pc' = [p_pc EXCEPT ![p] = "done"]
       ELSE /\ UNCHANGED response_map
            /\ IF TimedOut(now - p_start[p], p_req[p].timeout)
               THEN /\ p_result' = [p_result EXCEPT ![p] = TimedOutResult(0)]
                    /\ p_pc' = [p_pc EXCEPT ![p] = "done"]
               ELSE UNCHANGED <<p_pc, p_result>>
    /\ UNCHANGED <<now, command_queue, job_start_times, issued, w_pc, w_job, w_result,
                   w_exc, ser, p_req, p_job_id, p_start, putOrder, startOrder,
                   storeOrder, writes, stored, finished, raisedJobs>>

\* where a worker thread can spend seconds: in command_queue.get on an empty
\* queue (line 79), in a device exchange or in a cloud request
WorkerBlocked(w) ==
    \/ w_pc[w] \in {"ser_xfer", "cloud"}
    \/ w_pc[w] = "get" /\ command_queue = <<>>

\* time.time() advances by a clock step while the workers are blocked; the
\* statements between two blocking calls take no time at this resolution
Tick ==
    /\ now + TickLen <= MaxTime
    /\ \A w \in Workers : WorkerBlocked(w)
    /\ now' = now + TickLen
    /\ UNCHANGED <<command_queue, response_map, job_start_times, issued, w_pc, w_job,
                   w_result, w_exc, ser, p_pc, p_req, p_job_id, p_start, p_result,
                   putOrder, startOrder, storeOrder, writes, stored, finished,
                   raisedJobs>>

----------------------------------------------------------------------------
(* serial_worker *)

producerVars == <<p_pc, p_req, p_job_id, p_start, p_result, issued, putOrder>>
storeVars == <<response_map, writes, stored, storeOrder, finished>>

Raise(w, exc) ==
    /\ w_exc' = [w_exc EXCEPT ![w] = exc]
    /\ w_pc' = [w_pc EXCEPT ![w] = "except"]
    /\ raisedJobs' = raisedJobs \cup {w_job[w]}
    /\ UNCHANGED w_result

Return(w, result) ==
    /\ w_result' = [w_result EXCEPT ![w] = result]
    /\ w_pc' = [w_pc EXCEPT ![w] = "store"]
    /\ UNCHANGED <<w_exc, raisedJobs>>

Goto(w, pc) ==
    /\ w_pc' = [w_pc EXCEPT ![w] = pc]
    /\ UNCHANGED <<w_exc, raisedJobs, w_result>>

\* lines 79-82: take a job, note its start time
WorkerGet(w) ==
    /\ w_pc[w] = "get"
    /\ command_queue # <<>>
    /\ LET got == QueueGet(command_queue)
       IN /\ command_queue' = got.rest
          /\ w_job' = [w_job EXCEPT ![w] = got.job]
          /\ job_start_times' = DictSet(job_start_times, got.job.job_id, now)
          /\ startOrder' = Append(startOrder, got.job)
    /\ w_pc' = [w_pc EXCEPT ![w] = "dispatch"]
    /\ UNCHANGED <<now, w_result, w_exc, ser, raisedJobs, producerVars, storeVars>>

\* lines 120-136: get() timed out on an empty queue; fail the stalled jobs
StalledJobs == {jid \in DOMAIN job_start_times : now - job_start_times[jid] > JOB_MAX_TIME}

WorkerEmpty(w) ==
    /\ w_pc[w] = "get"
    /\ command_queue = <<>>
    /\ response_map' = [jid \in (DOMAIN response_map) \cup StalledJobs |->
                          IF jid \in StalledJobs THEN StalledResult(0) ELSE response_map[jid]]
    /\ stored' = [jid \in (DOMAIN stored) \cup StalledJobs |->
                          IF jid \in StalledJobs THEN StalledResult(0) ELSE stored[jid]]
    /\ writes' = [jid \in (DOMAIN writes) \cup StalledJobs |->
                          IF jid \in StalledJobs
                          THEN (IF jid \in DOMAIN writes THEN writes[jid] ELSE 0) + 1
                          ELSE writes[jid]]
    /\ job_start_times' = [jid \in (DOMAIN job_start_times) \ StalledJobs |-> job_start_times[jid]]
    /\ UNCHANGED <<now, command_queue, w_pc, w_job, w_result, w_exc, ser, raisedJobs,
                   producerVars, startOrder, storeOrder, finished>>

\* lines 85-102 with the entry checks of the logic functions (lines 145-212):
\* get_cw_logic, get_rw_logic and authenticate_logic raise ValueError on an
\* empty input; get_rw_logic also when int(cw, 16) fails
WorkerDispatch(w) ==
    /\ w_pc[w] = "dispatch"
    /\ LET job == w_job[w]
       IN CASE job.fn = "status" -> Return(w, status_logic(job.owner))
            [] job.fn = "get_identity" -> Goto(w, "ser_open")
            [] job.fn = "get_cw" -> Raise(w, "ValueError") \/ Goto(w, "cloud")
            [] job.fn = "get_rw" -> Raise(w, "ValueError") \/ Goto(w, "ser_open")
            [] job.fn = "authenticate" -> Raise(w, "ValueError") \/ Goto(w, "cloud")
            [] OTHER -> Return(w, UnknownFunction(job.owner))
    /\ UNCHANGED <<now, command_queue, job_start_times, w_job, ser,
                   producerVars, startOrder, storeVars>>

\* do_ser_transfer_l line 110: ser_open() returns the open port or raises
SerOpen(w) ==
    /\ w_pc[w] = "ser_open"
    /\ \/ /\ ser' = [ser EXCEPT ![w] = "open"]
          /\ Goto(w, "ser_xfer")
       \/ /\ Raise(w, "SerialException")
          /\ UNCHANGED ser
    /\ UNCHANGED <<now, command_queue, job_start_times, w_job,
                   producerVars, startOrder, storeVars>>

\* do_ser_transfer_l lines 111-113: write the frame, read the reply; either
\* call may raise, and then line 115 is not reached
SerTransfer(w) ==
    /\ w_pc[w] = "ser_xfer"
    /\ \/ Goto(w, "ser_close")
       \/ Raise(w, "SerialException")
    /\ UNCHANGED <<now, command_queue, job_start_times, w_job, ser,
                   producerVars, startOrder, storeVars>>

\* do_ser_transfer_l lines 115-118 and the caller's formatting: close the
\* port, decode the reply (int(.., 16) raises on a pair that is no hex)
SerClose(w) ==
    /\ w_pc[w] = "ser_close"
    /\ ser' = [ser EXCEPT ![w] = "closed"]
    /\ \/ Return(w, Succeeded(w_job[w].owner))
       \/ Raise(w, "ValueError")
    /\ UNCHANGED <<now, command_queue, job_start_times, w_job,
                   producerVars, startOrder, storeVars>>

\* the cloud calls of get_cw_logic and authenticate_logic: they return, or a
\* request, a JSON decode or a missing field raises; authenticate may be denied
CloudCall(w) ==
    /\ w_pc[w] = "cloud"
    /\ \/ Return(w, Succeeded(w_job[w].owner))
       \/ /\ w_job[w].fn = "authenticate"
          /\ Return(w, Denied(w_job[w].owner))
       \/ Raise(w, "CloudError")
    /\ UNCHANGED <<now, command_queue, job_start_times, w_job, ser,
                   producerVars, startOrder, storeVars>>

\* lines 107-110, or lines 138-139 for an exception the inner handler does not
\* catch. The Serial object of a transfer that raised is dropped with the
\* exception's traceback when the handler ends, which closes its port.
WorkerExcept(w) ==
    /\ w_pc[w] = "except"
    /\ ser' = [ser EXCEPT ![w] = "closed"]
    /\ IF CaughtByInnerExcept(w_exc[w])
       THEN /\ w_result' = [w_result EXCEPT ![w] =
                               Result(TRUE, FALSE, ErrorText(w_exc[w]), w_job[w].owner)]
            /\ w_pc' = [w_pc EXCEPT ![w] = "store"]
            /\ UNCHANGED <<w_job, finished>>
       ELSE /\ w_pc' = [w_pc EXCEPT ![w] = "get"]
            /\ w_job' = [w_job EXCEPT ![w] = NoJob]
            /\ finished' = finished \cup {w_job[w]}
            /\ UNCHANGED w_result
    /\ w_exc' = [w_exc EXCEPT ![w] = "none"]
    /\ UNCHANGED <<now, command_queue, job_start_times, raisedJobs,
                   producerVars, startOrder, response_map, writes, stored, storeOrder>>

\* lines 112-118: store the result under the lock, drop the start time
WorkerStore(w) ==
    /\ w_pc[w] = "store"
    /\ LET jid == w_job[w].job_id
       IN /\ response_map' = DictSet(response_map, jid, w_result[w])
          /\ stored' = DictSet(stored, jid, w_result[w])
          /\ writes' = DictSet(writes, jid, (IF jid \in DOMAIN writes THEN writes[jid] ELSE 0) + 1)
          /\ job_start_times' = JobStartTimesAfterStore(job_start_times, jid)
    /\ storeOrder' = Append(storeOrder, w_job[w])
    /\ finished' = finished \cup {w_job[w]}
    /\ w_pc' = [w_pc EXCEPT ![w] = "get"]
    /\ w_job' = [w_job EXCEPT ![w] = NoJob]
    /\ w_result' = [w_result EXCEPT ![w] = NoResult]
    /\ UNCHANGED <<now, command_queue, w_exc, ser, raisedJobs,
                   producerVars, startOrder>>

----------------------------------------------------------------------------
(* The server: state at import time (lines 62-68, 142) and its steps *)

InitServer ==
    /\ now = 0
    /\ command_queue = <<>>
    /\ response_map = EmptyDict
    /\ job_start_times = EmptyDict
    /\ issued = 0
    /\ w_pc = [w \in Workers |-> "get"]
    /\ w_job = [w \in Workers |-> NoJob]
    /\ w_result = [w \in Workers |-> NoResult]
    /\ w_exc = [w \in Workers |-> "none"]
    /\ ser = [w \in Workers |-> "closed"]
    /\ p_pc = [p \in Producers |-> "idle"]
    /\ p_req = [p \in Producers |-> NoRequest]
    /\ p_job_id = [p \in Producers |-> 0]
    /\ p_start = [p \in Producers |-> 0]
    /\ p_result = [p \in Producers |-> NoResult]
    /\ putOrder = <<>>
    /\ startOrder = <<>>
    /\ storeOrder = <<>>
    /\ writes = EmptyDict
    /\ stored = EmptyDict
    /\ finished = {}
    /\ raisedJobs = {}

NoCodecOut == [outcome |-> "none", text |-> <<>>, fields |-> <<>>]

CodecIdle ==
    /\ c_pc = "off"
    /\ resp_s = <<>>
    /\ c_op = "none"
    /\ c_out = NoCodecOut

NoFrameOut == [outcome |-> "none", list |-> <<>>]

FrameIdle ==
    /\ f_pc = "off"
    /\ f_number = 0
    /\ f_list = <<>>
    /\ f_op = "none"
    /\ f_out = NoFrameOut

NoArgs == [identity |-> "", cw |-> "", rw |-> "", transactionId |-> ""]
NoResponse == [status |-> "none", claimId |-> "none"]
NoAuthOut == [outcome |-> "none", success |-> FALSE, authResult |-> "none", claimId |-> "none"]

\* pi_api_server.py lines 38-53: gpio_setup leaves green and red low, yellow high
LedAfterSetup == [g |-> FALSE, r |-> FALSE, y |-> TRUE]
NoCalls == [login |-> 0, cw |-> 0, submit |-> 0]

LedIdle ==
    /\ led = LedAfterSetup
    /\ led_pc = 0
    /\ led_target = "none"

NoWireOut == [outcome |-> "none", list |-> <<>>]
NoMessage == [json |-> "none", fn |-> "none", args |-> "none"]

DeviceIdle ==
    /\ d_pc = "off"
    /\ d_script = <<>>
    /\ d_script0 = <<>>
    /\ d_pending = 0
    /\ d_reply = <<>>
    /\ d_reads = 0
    /\ d_results = <<>>
    /\ d_now = 0
    /\ d_last_close = -1
    /\ d_gap = -1

WireIdle ==
    /\ x_pc = "off"
    /\ x_list = <<>>
    /\ x_fmt = "none"
    /\ x_text = <<>>
    /\ x_out = NoWireOut

MqttIdle ==
    /\ q_pc = "off"
    /\ q_msg = NoMessage
    /\ q_fn = "none"
    /\ q_arg = "none"
    /\ q_timeout = 0
    /\ q_response = NoResult
    /\ q_published = <<>>

OthersIdle == DeviceIdle /\ WireIdle /\ MqttIdle

MainIdle ==
    /\ m_pc = "off"
    /\ m_pccid = ""
    /\ m_cw = ""
    /\ m_transactionid = ""
    /\ m_rw = ""
    /\ m_transactionidresponse = ""
    /\ m_authenticationresult = ""
    /\ m_log = <<>>
    /\ m_polled = {}

NoData == [present |-> FALSE, identity |-> "absent", cw |-> "absent", rw |-> "absent",
           transactionId |-> "absent"]
NoLogicOut == [outcome |-> "none", detail |-> ""]

LogicIdle ==
    /\ h_pc = "off"
    /\ h_fn = "none"
    /\ h_data = NoData
    /\ h_http = 0
    /\ h_body = NoResult
    /\ j_pc = "none"
    /\ j_result = NoResult
    /\ l_pc = "off"
    /\ l_arg = ""
    /\ l_out = NoLogicOut

AuthIdle ==
    /\ a_pc = "off"
    /\ a_args = NoArgs
    /\ a_status = "none"
    /\ a_claimid = "none"
    /\ a_responsedata = NoResponse
    /\ a_polls = 0
    /\ a_out = NoAuthOut
    /\ calls = NoCalls
    /\ LedIdle

Init == InitServer /\ CodecIdle /\ AuthIdle /\ LogicIdle /\ FrameIdle /\ MainIdle /\ OthersIdle

Next ==
    \/ \E p \in Producers : Enqueue(p) /\ UNCHANGED nonServerVars
    \/ \E p \in Producers : PollResponse(p) /\ UNCHANGED nonServerVars
    \/ \E w \in Workers : WorkerGet(w) /\ UNCHANGED nonServerVars
    \/ \E w \in Workers : WorkerEmpty(w) /\ UNCHANGED nonServerVars
    \/ \E w \in Workers : WorkerDispatch(w) /\ UNCHANGED nonServerVars
    \/ \E w \in Workers : SerOpen(w) /\ UNCHANGED nonServerVars
    \/ \E w \in Workers : SerTransfer(w) /\ UNCHANGED nonServerVars
    \/ \E w \in Workers : SerClose(w) /\ UNCHANGED nonServerVars
    \/ \E w \in Workers : CloudCall(w) /\ UNCHANGED nonServerVars
    \/ \E w \in Workers : WorkerExcept(w) /\ UNCHANGED nonServerVars
    \/ \E w \in Workers : WorkerStore(w) /\ UNCHANGED nonServerVars
    \/ Tick /\ UNCHANGED nonServerVars

Spec == Init /\ [][Next]_vars

----------------------------------------------------------------------------
(* Claims about the job queue (Spec) *)

KnownFunctions == {"status", "get_identity", "get_cw", "get_rw", "authenticate"}
Writes(jid) == IF jid \in DOMAIN writes THEN writes[jid] ELSE 0
IsPrefix(a, b) == Len(a) <= Len(b) /\ a = SubSeq(b, 1, Len(a))
InTransfer == {w \in Workers : w_pc[w] \in {"ser_xfer", "ser_close"}}
PortHolders == {w \in Workers : ser[w] = "open"}

\* C1: at most one device transfer is in flight at any time, and at most one
\* port is open: no transfer begins before the previous one has closed its port.
C1_AtMostOneTransfer ==
    /\ Cardinality(InTransfer) <= 1
    /\ Cardinality(PortHolders) <= 1
    /\ InTransfer \subseteq PortHolders

\* a transfer is in flight while another device job waits in the queue
C1_Witness ==
    \E w \in Workers :
        /\ w_pc[w] = "ser_xfer"
        /\ ser[w] = "open"
        /\ \E i \in DOMAIN command_queue : command_queue[i].fn = "get_identity"

\* C2: every job put on command_queue has at most one result written under
\* its id, and exactly one once the worker has finished it.
C2_ExactlyOneResult ==
    \A i \in DOMAIN putOrder :
        /\ Writes(putOrder[i].job_id) <= 1
        /\ putOrder[i] \in finished => Writes(putOrder[i].job_id) = 1

\* a job enqueued more than JOB_MAX_TIME ago has been stored, and the worker
\* is back at an empty queue, where the Empty branch runs
C2_Witness ==
    \E job \in finished :
        /\ Writes(job.job_id) = 1
        /\ now - p_start[job.owner] > JOB_MAX_TIME
        /\ command_queue = <<>>
        /\ \A w \in Workers : w_pc[w] = "get"

\* C3: a late result is discarded: once every caller has returned and the
\* worker is idle at an empty queue, nothing remains in response_map.
C3_LateResultDiscarded ==
    ( /\ \A p \in Producers : p_pc[p] = "done"
      /\ command_queue = <<>>
      /\ \A w \in Workers : w_pc[w] = "get" )
    => DOMAIN response_map = {}

\* C4: job ids are pairwise distinct, a caller only ever receives the result of
\* the job it enqueued, and no job's result is received by two callers.
C4_OwnResultOnly ==
    /\ \A i, k \in DOMAIN putOrder : i # k => putOrder[i].job_id # putOrder[k].job_id
    /\ \A p \in Producers :
          (p_pc[p] = "done" /\ p_result[p].owner # 0) => p_result[p].owner = p
    /\ \A p, q \in Producers :
          (p # q /\ p_result[p].owner # 0) => p_result[p].owner # p_result[q].owner

\* two callers have each received the result of their own job
C4_Witness ==
    \E p, q \in Producers :
        /\ p # q
        /\ p_pc[p] = "done" /\ p_result[p].owner = p
        /\ p_pc[q] = "done" /\ p_result[q].owner = q

\* C5: the worker starts the jobs in the order of their puts and stores their
\* results in that order.
C5_FIFO ==
    /\ IsPrefix(startOrder, putOrder)
    /\ IsPrefix(storeOrder, startOrder)

\* two jobs have been put, started and stored, the first caller's first
C5_Witness ==
    /\ Len(storeOrder) >= 2
    /\ storeOrder[1].owner = 1
    /\ storeOrder[2].owner = 2

C18_StatusAnswered ==
    /\ \A w \in Workers : w_job[w].fn = "status" => w \notin InTransfer \cup PortHolders
    /\ \A p \in Producers :
         (p_pc[p] = "done" /\ p_req[p].fn = "status") => p_result[p] = status_logic(p)

\* C20: command_queue has a capacity: however many producers enqueue while
\* the worker is busy, fewer jobs wait in the queue than there are producers.
C20_QueueBounded == Len(command_queue) < NumProducers

----------------------------------------------------------------------------
(* sga.py: the byte codec *)

API_I_IDENT_PART1_START == 5
API_I_IDENT_PART1_LENGTH == 16
API_I_IDENT_PART2_START == 21
API_I_IDENT_PART2_LENGTH == 16
API_I_RESP_START == 71
API_I_RESP_LENGTH == 16
API_I_EK_START == 87
API_I_EK_LENGTH == 16
API_I_RWL_PART1_START == 38
API_I_RWL_PART1_LENGTH == 16
API_I_RWL_PART2_START == 54
API_I_RWL_PART2_LENGTH == 16
API_I_BIST == 71
BIST_PASS == 80       \* 0x50

MaxRespChars == 208   \* longest reply text delivered (a CR_EK reply is 206 characters)
NumFills == 2         \* reply contents tried per length

Min(a, b) == IF a < b THEN a ELSE b

HexDigits == <<"0", "1", "2", "3", "4", "5", "6", "7", "8", "9", "a", "b", "c", "d", "e", "f">>
UpperHexDigits == <<"A", "B", "C", "D", "E", "F">>
Whitespace == {" ", "\t", "\n", "\r"}

\* value of one hexadecimal digit, -1 for any other character
HexTable ==
    [c \in {HexDigits[i] : i \in 1..16} \cup {UpperHexDigits[i] : i \in 1..6} |->
        IF \E i \in 1..16 : HexDigits[i] = c
        THEN (CHOOSE i \in 1..16 : HexDigits[i] = c) - 1
        ELSE (CHOOSE i \in 1..6 : UpperHexDigits[i] = c) + 9]
HexVal(c) == IF c \in DOMAIN HexTable THEN HexTable[c] ELSE -1

\* int(x, 16) of a slice x of one or two characters: int() strips surrounding
\* whitespace; -1 stands for ValueError
IntBase16(x) ==
    IF Len(x) = 2 /\ HexVal(x[1]) >= 0 /\ HexVal(x[2]) >= 0
    THEN 16 * HexVal(x[1]) + HexVal(x[2])
    ELSE IF Len(x) = 2 /\ HexVal(x[1]) >= 0 /\ x[2] \in Whitespace THEN HexVal(x[1])
    ELSE IF Len(x) = 2 /\ x[1] \in Whitespace /\ HexVal(x[2]) >= 0 THEN HexVal(x[2])
    ELSE IF Len(x) = 1 /\ HexVal(x[1]) >= 0 THEN HexVal(x[1])
    ELSE -1

\* l[a:b] of Python for 0 <= a <= b
Slice(l, a, b) == SubSeq(l, a + 1, Min(b, Len(l)))

\* mutant: '%x', without the zero padding
HexUnpadded(e) ==
    IF e < 16 THEN <<HexDigits[e + 1]>>
    ELSE <<HexDigits[(e \div 16) + 1], HexDigits[(e % 16) + 1]>>

\* '%02x' % e, for e in 0..255
Hex02(e) == <<HexDigits[(e \div 16) + 1], HexDigits[(e % 16) + 1]>>

\* ''.join('%02x' % e for e in l)
RECURSIVE JoinHex(_)
JoinHex(l) == IF l = <<>> THEN <<>> ELSE Hex02(Head(l)) \o JoinHex(Tail(l))

\* line 116: [int(resp_s[i:i+2], 16) for i in range(0, len(resp_s)-1, 2)]
\* range(0, n - 1, 2) has n \div 2 items: 0, 2, .. up to n - 2
NumPairs(text) == Len(text) \div 2
DecodeReply(text) == [k \in 1..NumPairs(text) |-> IntBase16(Slice(text, 2 * (k - 1), 2 * k))]
DecodeRaises(text) == \E k \in 1..NumPairs(text) : DecodeReply(text)[k] < 0

\* lines 173-176
disassemble_l_id(l_r) ==
    [l_pcc |-> Slice(l_r, API_I_IDENT_PART1_START, API_I_IDENT_PART1_START + API_I_IDENT_PART1_LENGTH),
     l_id |-> Slice(l_r, API_I_IDENT_PART2_START, API_I_IDENT_PART2_START + API_I_IDENT_PART2_LENGTH)]

\* lines 178-182
disassemble_l_rw(l_r) ==
    [l_pcc |-> Slice(l_r, API_I_IDENT_PART1_START, API_I_IDENT_PART1_START + API_I_IDENT_PART1_LENGTH),
     l_id |-> Slice(l_r, API_I_IDENT_PART2_START, API_I_IDENT_PART2_START + API_I_IDENT_PART2_LENGTH),
     l_rw |-> Slice(l_r, API_I_RESP_START, API_I_RESP_START + API_I_RESP_LENGTH)]

\* lines 184-188
disassemble_l_ek(l_r) ==
    [l_pcc |-> Slice(l_r, API_I_IDENT_PART1_START, API_I_IDENT_PART1_START + API_I_IDENT_PART1_LENGTH),
     l_id |-> Slice(l_r, API_I_IDENT_PART2_START, API_I_IDENT_PART2_START + API_I_IDENT_PART2_LENGTH),
     l_ek |-> Slice(l_r, API_I_EK_START, API_I_EK_START + API_I_EK_LENGTH)]

\* lines 190-195
disassemble_l_rwek(l_r) ==
    [l_pcc |-> Slice(l_r, API_I_IDENT_PART1_START, API_I_IDENT_PART1_START + API_I_IDENT_PART1_LENGTH),
     l_id |-> Slice(l_r, API_I_IDENT_PART2_START, API_I_IDENT_PART2_START + API_I_IDENT_PART2_LENGTH),
     l_rw |-> Slice(l_r, API_I_RESP_START, API_I_RESP_START + API_I_RESP_LENGTH),
     l_ek |-> Slice(l_r, API_I_EK_START, API_I_EK_START + API_I_EK_LENGTH)]

\* lines 164-171; l_r[API_I_BIST] raises IndexError on a list of 71 items or fewer
disassemble_l_bist_raises(l_r) == Len(l_r) <= API_I_BIST
disassemble_l_bist(l_r) ==
    [l_pcc |-> Slice(l_r, API_I_IDENT_PART1_START, API_I_IDENT_PART1_START + API_I_IDENT_PART1_LENGTH),
     l_id |-> Slice(l_r, API_I_IDENT_PART2_START, API_I_IDENT_PART2_START + API_I_IDENT_PART2_LENGTH),
     l_rw |-> Slice(l_r, API_I_RWL_PART1_START, API_I_RWL_PART1_START + API_I_RWL_PART1_LENGTH),
     l_ek |-> Slice(l_r, API_I_RWL_PART2_START, API_I_RWL_PART2_START + API_I_RWL_PART2_LENGTH),
     b_pass |-> IF l_r[API_I_BIST + 1] = BIST_PASS THEN 1 ELSE 0]

\* lines 281-289, on the decoded reply
get_pccid(l_r) == JoinHex(disassemble_l_id(l_r).l_pcc) \o JoinHex(disassemble_l_id(l_r).l_id)

\* lines 293-297, on the decoded reply
do_rw_only(l_r) == JoinHex(disassemble_l_rw(l_r).l_rw)

----------------------------------------------------------------------------
(* SpecCodec: the codec applied to the replies ser.read(512) can deliver *)

\* a reply text: n hexadecimal characters, then what the device ends a line with
ReplyTails == {<<>>, <<"\r">>, <<"\r", "\n">>}
ReplyText(n, fill, tail) ==
    [i \in 1..n |-> HexDigits[((i * (2 * fill + 1) + fill) % 16) + 1]] \o tail
Replies ==
    {ReplyText(n, fill, tail) : n \in 0..MaxRespChars, fill \in 0..(NumFills - 1),
                                tail \in ReplyTails}

DisassembleOps ==
    {"disassemble_l_id", "disassemble_l_rw", "disassemble_l_ek", "disassemble_l_rwek",
     "disassemble_l_bist"}

CodecDone(op, outcome, text, fields) ==
    /\ c_pc = "ready"
    /\ c_pc' = "done"
    /\ c_op' = op
    /\ c_out' = [outcome |-> outcome, text |-> text, fields |-> fields]
    /\ UNCHANGED resp_s

\* get_identity_logic (pi_api_server.py lines 149-162) over get_pccid: the
\* result is {success: True, identity} unless the decoding raised
GetIdentity ==
    IF DecodeRaises(resp_s)
    THEN CodecDone("get_identity", "ValueError", <<>>, <<>>)
    ELSE CodecDone("get_identity", "ok", get_pccid(DecodeReply(resp_s)), <<>>)

\* do_rw_only returns s_rw unless the decoding raised
DoRwOnly ==
    IF DecodeRaises(resp_s)
    THEN CodecDone("do_rw_only", "ValueError", <<>>, <<>>)
    ELSE CodecDone("do_rw_only", "ok", do_rw_only(DecodeReply(resp_s)), <<>>)

\* the disassemble_l_* parsers on a decoded reply
DisassembleId ==
    /\ ~DecodeRaises(resp_s)
    /\ CodecDone("disassemble_l_id", "ok", <<>>, disassemble_l_id(DecodeReply(resp_s)))

DisassembleRw ==
    /\ ~DecodeRaises(resp_s)
    /\ CodecDone("disassemble_l_rw", "ok", <<>>, disassemble_l_rw(DecodeReply(resp_s)))

DisassembleEk ==
    /\ ~DecodeRaises(resp_s)
    /\ CodecDone("disassemble_l_ek", "ok", <<>>, disassemble_l_ek(DecodeReply(resp_s)))

DisassembleRwek ==
    /\ ~DecodeRaises(resp_s)
    /\ CodecDone("disassemble_l_rwek", "ok", <<>>, disassemble_l_rwek(DecodeReply(resp_s)))

DisassembleBist ==
    /\ ~DecodeRaises(resp_s)
    /\ IF disassemble_l_bist_raises(DecodeReply(resp_s))
       THEN CodecDone("disassemble_l_bist", "IndexError", <<>>, <<>>)
       ELSE CodecDone("disassemble_l_bist", "ok", <<>>, disassemble_l_bist(DecodeReply(resp_s)))

InitCodec ==
    /\ InitServer
    /\ OthersIdle
    /\ MainIdle
    /\ AuthIdle
    /\ LogicIdle
    /\ FrameIdle
    /\ c_pc = "ready"
    /\ resp_s \in Replies
    /\ c_op = "none"
    /\ c_out = NoCodecOut

NextCodec ==
    \/ GetIdentity /\ UNCHANGED nonCodecVars
    \/ DoRwOnly /\ UNCHANGED nonCodecVars
    \/ DisassembleId /\ UNCHANGED nonCodecVars
    \/ DisassembleRw /\ UNCHANGED nonCodecVars
    \/ DisassembleEk /\ UNCHANGED nonCodecVars
    \/ DisassembleRwek /\ UNCHANGED nonCodecVars
    \/ DisassembleBist /\ UNCHANGED nonCodecVars

SpecCodec == InitCodec /\ [][NextCodec]_vars

(* Claims about the codec (SpecCodec) *)

\* number of bytes a parser needs: the largest offset + length it reads
RequiredLength(op) ==
    CASE op = "disassemble_l_id" -> API_I_IDENT_PART2_START + API_I_IDENT_PART2_LENGTH
      [] op = "disassemble_l_rw" -> API_I_RESP_START + API_I_RESP_LENGTH
      [] op = "disassemble_l_ek" -> API_I_EK_START + API_I_EK_LENGTH
      [] op = "disassemble_l_rwek" -> API_I_EK_START + API_I_EK_LENGTH
      [] op = "disassemble_l_bist" -> API_I_BIST + 1

\* C8: an Identify that returns success returns an identity of exactly 64
\* hexadecimal characters, whatever reply the link delivered.
C8_IdentityLength ==
    (c_pc = "done" /\ c_op = "get_identity" /\ c_out.outcome = "ok") => Len(c_out.text) = 64

\* C9: a challenge-response that returns without error returns an RW of
\* exactly 32 hexadecimal characters, whatever reply the link delivered.
C9_RwLength ==
    (c_pc = "done" /\ c_op = "do_rw_only" /\ c_out.outcome = "ok") => Len(c_out.text) = 32

\* C10: parsing from a decoded reply that is shorter than a field's offset
\* plus length fails with ShortFrame.
C10_ShortFrame ==
    ( /\ c_pc = "done"
      /\ c_op \in DisassembleOps
      /\ Len(DecodeReply(resp_s)) < RequiredLength(c_op) )
    => c_out.outcome = "ShortFrame"

----------------------------------------------------------------------------
(* The LED lines: set_led_status, one GPIO.output at a time *)

\* the caller's side of set_led_status(status): the three writes follow
SetLed(status) ==
    /\ led_pc' = 1
    /\ led_target' = status
    /\ UNCHANGED led

\* pi_api_server.py lines 57-59: the next GPIO.output of the call in progress
LedWrite ==
    /\ led_pc \in 1..3
    /\ led' = CASE led_pc = 1 -> [led EXCEPT !.g = (led_target = "green")]
                [] led_pc = 2 -> [led EXCEPT !.r = (led_target = "red")]
                [] led_pc = 3 -> [led EXCEPT !.y = (led_target = "yellow")]
    /\ led_pc' = IF led_pc = 3 THEN 0 ELSE led_pc + 1
    /\ UNCHANGED led_target

\* the colours whose line is high
Asserted == {c \in {"g", "r", "y"} : led[c]}
LedShows(status) ==
    led = [g |-> status = "green", r |-> status = "red", y |-> status = "yellow"]

\* history of the requests sent to the cloud
Called(endpoint) == calls' = [calls EXCEPT ![endpoint] = @ + 1]

----------------------------------------------------------------------------
(* SpecAuth: authenticate_logic over do_retrieve_result, against any cloud *)

MaxPolls == 3         \* polls counted (a_polls stays at MaxPolls beyond that)

\* the arguments serial_worker passes: each payload.get(..) is a text or empty
AuthArgs ==
    [identity : {"", "pccid"}, cw : {"", "cw"}, rw : {"", "rw"}, transactionId : {"", "T1"}]

\* response.json() of checkAuthStatus: "absent" marks a missing key
CloudResponses ==
    [status : {"NOT_READY", "AUTH_OK", "CLAIM_ID", "AUTH_FAILED", "absent"},
     claimId : {"C42", "", "absent"}]

\* what requests and response.json()[..] raise
CloudExceptions == {"ConnectionError", "KeyError"}

\* pi_api_server.py line 235: auth_result in ['CLAIM_ID', 'AUTH_OK']
AuthSuccess(auth_result) == auth_result \in {"CLAIM_ID", "AUTH_OK"}

\* mutant: the claim id of the response is returned whatever the status
ClaimIdOfAnyStatus(authenticationresult, responsedata) ==
    IF responsedata.claimId = "absent" THEN "" ELSE responsedata.claimId

\* sga.py lines 419-422
ClaimIdOf(authenticationresult, responsedata) ==
    IF authenticationresult = "CLAIM_ID" THEN responsedata.claimId ELSE ""

\* an exception leaves authenticate_logic
AuthRaise(exc) ==
    /\ a_pc' = "raised"
    /\ a_out' = [outcome |-> exc, success |-> FALSE, authResult |-> "none", claimId |-> "none"]

\* pi_api_server.py lines 239-242: set_led_status('red'), then raise
AuthFail(exc) == AuthRaise(exc) /\ SetLed("red")

\* mutant: a failed cloud call is made again
RetrySameCall(pc) == pc

\* where a logic function goes when a cloud call raised: the `raise` of its
\* except clause (lines 184-187, 239-242)
AfterCloudFailure(pc) == "raised"

\* do_cyberrock_iot_login, get_cyberrock_cw or do_submit_rw raised inside
\* authenticate_logic
AuthCloudFail(exc) ==
    /\ a_pc' = AfterCloudFailure(a_pc)
    /\ a_out' = [outcome |-> exc, success |-> FALSE, authResult |-> "none", claimId |-> "none"]
    /\ SetLed("red")

\* pi_api_server.py lines 206-211: all four arguments must be non-empty;
\* then set_led_status('yellow')
AuthEnter ==
    /\ a_pc = "entry" /\ led_pc = 0
    /\ IF a_args.identity = "" \/ a_args.cw = "" \/ a_args.rw = "" \/ a_args.transactionId = ""
       THEN AuthRaise("ValueError") /\ UNCHANGED ledVars
       ELSE a_pc' = "login" /\ SetLed("yellow") /\ UNCHANGED a_out
    /\ UNCHANGED <<a_args, a_status, a_claimid, a_responsedata, a_polls, calls>>

\* lines 213-217: do_cyberrock_iot_login returns a token or raises
AuthLogin ==
    /\ a_pc = "login" /\ led_pc = 0
    /\ Called("login")
    /\ \/ a_pc' = "submit" /\ UNCHANGED <<a_out, ledVars>>
       \/ \E exc \in CloudExceptions : AuthCloudFail(exc)
    /\ UNCHANGED <<a_args, a_status, a_claimid, a_responsedata, a_polls>>

\* lines 218-226, then sga.py lines 390-400: do_submit_rw returns or raises;
\* do_retrieve_result starts with authenticationresult = 'NOT_READY'
AuthSubmit ==
    /\ a_pc = "submit" /\ led_pc = 0
    /\ Called("submit")
    /\ \/ a_pc' = "sleep" /\ a_status' = "NOT_READY" /\ UNCHANGED <<a_out, ledVars>>
       \/ \E exc \in CloudExceptions : AuthCloudFail(exc) /\ UNCHANGED a_status
    /\ UNCHANGED <<a_args, a_claimid, a_responsedata, a_polls>>

\* mutant: the loop test is inverted
PollUnlessNotReady(authenticationresult) == authenticationresult # "NOT_READY"

\* sga.py line 402: the test of the polling loop
KeepPolling(authenticationresult) == authenticationresult = "NOT_READY"

\* sga.py lines 402-404: the loop test, then time.sleep(0.1)
PollSleep ==
    /\ a_pc = "sleep" /\ led_pc = 0
    /\ IF KeepPolling(a_status) THEN a_pc' = "request" ELSE a_pc' = "claim"
    /\ UNCHANGED <<a_args, a_status, a_claimid, a_responsedata, a_polls, a_out, calls, ledVars>>

\* sga.py lines 406-417: one status request; the cloud answers anything, or
\* the request or responsedata['status'] raises
PollRequest ==
    /\ a_pc = "request" /\ led_pc = 0
    /\ a_polls' = Min(a_polls + 1, MaxPolls)
    /\ \/ \E r \in CloudResponses :
            /\ a_responsedata' = r
            /\ IF r.status = "absent"
               THEN AuthFail("KeyError") /\ UNCHANGED a_status
               ELSE a_status' = r.status /\ a_pc' = "sleep" /\ UNCHANGED <<a_out, ledVars>>
       \/ AuthFail("ConnectionError") /\ UNCHANGED <<a_status, a_responsedata>>
    /\ UNCHANGED <<a_args, a_claimid, calls>>

\* sga.py lines 419-424, then pi_api_server.py lines 233-238
RetrieveReturn ==
    /\ a_pc = "claim" /\ led_pc = 0
    /\ IF a_status = "CLAIM_ID" /\ a_responsedata.claimId = "absent"
       THEN AuthFail("KeyError") /\ UNCHANGED a_claimid
       ELSE LET claimid == ClaimIdOf(a_status, a_responsedata)
            IN /\ a_claimid' = claimid
               /\ SetLed(IF AuthSuccess(a_status) THEN "green" ELSE "red")
               /\ a_out' = [outcome |-> "ok",
                            success |-> AuthSuccess(a_status),
                            authResult |-> a_status,
                            claimId |-> claimid]
               /\ a_pc' = "returned"
    /\ UNCHANGED <<a_args, a_status, a_responsedata, a_polls, calls>>

\* the steps of authenticate_logic
AuthStep ==
    \/ AuthEnter
    \/ AuthLogin
    \/ AuthSubmit
    \/ PollSleep
    \/ PollRequest
    \/ RetrieveReturn

InitAuth ==
    /\ InitServer
    /\ OthersIdle
    /\ MainIdle
    /\ CodecIdle
    /\ LogicIdle
    /\ FrameIdle
    /\ a_pc = "entry"
    /\ a_args \in AuthArgs
    /\ a_status = "none"
    /\ a_claimid = "none"
    /\ a_responsedata = NoResponse
    /\ a_polls = 0
    /\ a_out = NoAuthOut
    /\ calls = NoCalls
    /\ LedIdle

NextAuth ==
    \/ AuthEnter /\ UNCHANGED nonAuthVars
    \/ AuthLogin /\ UNCHANGED nonAuthVars
    \/ AuthSubmit /\ UNCHANGED nonAuthVars
    \/ PollSleep /\ UNCHANGED nonAuthVars
    \/ PollRequest /\ UNCHANGED nonAuthVars
    \/ RetrieveReturn /\ UNCHANGED nonAuthVars
    \/ LedWrite /\ UNCHANGED <<authVars, calls, nonAuthVars>>

SpecAuth == InitAuth /\ [][NextAuth]_vars

\* the worker thread that runs authenticate_logic is never starved, and the
\* cloud answers every request
SpecAuthFair == SpecAuth /\ WF_vars(NextAuth)

(* Claims about authenticate_logic (SpecAuth, SpecAuthFair) *)

\* C6: for every behaviour of the cloud, authenticate_logic ends after
\* finitely many polls: it returns or raises.
C6_PollingEnds == <>(a_pc \in {"returned", "raised"})

\* C13: authenticate_logic returns success exactly for the verdicts AUTH_OK
\* and CLAIM_ID; with CLAIM_ID the claimId is the one the cloud sent, and with
\* every other verdict the claimId is empty.
C13_VerdictMapping ==
    (a_pc = "returned")
    => /\ a_out.authResult = a_status
       /\ a_status = a_responsedata.status
       /\ a_out.success = (a_status \in {"AUTH_OK", "CLAIM_ID"})
       /\ a_status = "CLAIM_ID" => a_out.claimId = a_responsedata.claimId
       /\ a_status # "CLAIM_ID" => a_out.claimId = ""

C13_Witness ==
    /\ a_pc = "returned"
    /\ a_out.success /\ a_out.authResult = "CLAIM_ID" /\ a_out.claimId = "C42"

\* C31: do_retrieve_result never returns the status NOT_READY: a status
\* request is sent only while every status seen so far is NOT_READY, at least
\* one is sent before the function goes on, and the status it goes on with
\* and returns is the one of the last answer, different from NOT_READY.
C31_FirstVerdictReturned ==
    /\ a_pc = "request" => a_status = "NOT_READY"
    /\ a_pc \in {"claim", "returned"}
       => /\ a_polls >= 1
          /\ a_status # "NOT_READY"
          /\ a_status = a_responsedata.status
    /\ a_pc = "returned"
       => /\ a_out.authResult # "NOT_READY"
          /\ a_out.authResult = a_responsedata.status

\* the cloud answered NOT_READY to the first status request and AUTH_FAILED
\* to the second, which was the last
C31_Witness ==
    /\ a_pc = "returned"
    /\ a_polls = 2
    /\ a_responsedata.status = "AUTH_FAILED"
    /\ a_out.authResult = "AUTH_FAILED"

----------------------------------------------------------------------------
(* SpecLogic: one request, from its endpoint through the worker and its     *)
(* logic function to the HTTP response                                      *)

Endpoints == {"status", "get_identity", "get_cw", "get_rw", "authenticate"}

\* request.get_json(): no usable body, or a JSON object whose keys are
\* absent, empty or filled
RequestData(fn) ==
    CASE fn = "get_cw" ->
           {NoData} \cup {[NoData EXCEPT !.present = TRUE, !.identity = v] :
                            v \in {"absent", "", "pccid"}}
      [] fn = "get_rw" ->
           {NoData} \cup {[NoData EXCEPT !.present = TRUE, !.cw = v] :
                            v \in {"absent", "", "cw", "xyz"}}
      [] fn = "authenticate" ->
           {NoData} \cup [present : {TRUE}, identity : {"absent", "", "pccid"}, cw : {"cw"},
                          rw : {"", "rw"}, transactionId : {"absent", "T1"}]
      [] OTHER -> {NoData}

\* payload.get(key): None and '' are both false for the logic functions
PayloadGet(data, key) == IF data[key] = "absent" THEN "" ELSE data[key]

\* the keys an endpoint requires to be in the body
RequiredFields(fn) ==
    CASE fn = "get_cw" -> {"identity"}
      [] fn = "get_rw" -> {"cw"}
      [] fn = "authenticate" -> {"identity", "cw", "rw", "transactionId"}
      [] OTHER -> {}

Respond(http, body) ==
    /\ h_pc' = "responded"
    /\ h_http' = http
    /\ h_body' = body

\* pi_api_server.py lines 318-391 up to command_queue.put: the checks of the
\* endpoint, then the job is queued
ApiEnqueue ==
    /\ h_pc = "recv"
    /\ IF h_fn \in {"get_cw", "get_rw"} /\ ~h_data.present
       THEN Respond(400, Result(TRUE, FALSE, "Missing parameter", 1)) /\ UNCHANGED j_pc
       ELSE IF h_fn = "authenticate" /\ ~h_data.present
       THEN Respond(500, Result(TRUE, FALSE, ErrorText("TypeError"), 1)) /\ UNCHANGED j_pc
       ELSE IF \E f \in RequiredFields(h_fn) : h_data[f] = "absent"
       THEN Respond(400, Result(TRUE, FALSE, "Missing parameter", 1)) /\ UNCHANGED j_pc
       ELSE h_pc' = "waiting" /\ j_pc' = "queued" /\ UNCHANGED <<h_http, h_body>>
    /\ UNCHANGED <<h_fn, h_data, j_result, l_pc, l_arg, l_out, authVars, calls, ledVars>>

\* lines 79-102: the worker takes the job and calls its logic function
WorkerCall ==
    /\ j_pc = "queued"
    /\ j_pc' = "running"
    /\ CASE h_fn = "status" ->
              /\ l_pc' = "returned" /\ l_out' = [outcome |-> "ok", detail |-> "status"]
              /\ UNCHANGED <<l_arg, authVars>>
         [] h_fn = "get_identity" ->
              l_pc' = "entry" /\ UNCHANGED <<l_arg, l_out, authVars>>
         [] h_fn = "get_cw" ->
              /\ l_pc' = "entry" /\ l_arg' = PayloadGet(h_data, "identity")
              /\ UNCHANGED <<l_out, authVars>>
         [] h_fn = "get_rw" ->
              /\ l_pc' = "entry" /\ l_arg' = PayloadGet(h_data, "cw")
              /\ UNCHANGED <<l_out, authVars>>
         [] h_fn = "authenticate" ->
              /\ a_pc' = "entry"
              /\ a_args' = [f \in {"identity", "cw", "rw", "transactionId"} |->
                              PayloadGet(h_data, f)]
              /\ UNCHANGED <<a_status, a_claimid, a_responsedata, a_polls, a_out,
                             l_pc, l_arg, l_out>>
    /\ UNCHANGED <<h_pc, h_fn, h_data, h_http, h_body, j_result, calls, ledVars>>

LogicRaise(exc) ==
    /\ l_pc' = "raised"
    /\ l_out' = [outcome |-> exc, detail |-> ""]

LogicFail(exc) == LogicRaise(exc) /\ SetLed("red")

LogicCloudFail(exc) ==
    /\ l_pc' = AfterCloudFailure(l_pc)
    /\ l_out' = [outcome |-> exc, detail |-> ""]
    /\ SetLed("red")

LogicReturn(detail) ==
    /\ l_pc' = "returned"
    /\ l_out' = [outcome |-> "ok", detail |-> detail]
    /\ SetLed("green")

\* what the device link raises in sga.get_pccid and sga.do_rw_only
DeviceExceptions == {"SerialException", "ValueError"}

\* lines 149-151: get_identity_logic has no argument to check
IdentityEnter ==
    /\ h_fn = "get_identity" /\ l_pc = "entry" /\ led_pc = 0
    /\ l_pc' = "device"
    /\ SetLed("yellow")
    /\ UNCHANGED <<l_arg, l_out, calls>>

\* lines 152-162: sga.get_pccid() returns a text or raises
IdentityDevice ==
    /\ h_fn = "get_identity" /\ l_pc = "device" /\ led_pc = 0
    /\ \/ LogicReturn("identity")
       \/ \E exc \in DeviceExceptions : LogicFail(exc)
    /\ UNCHANGED <<l_arg, calls>>

\* lines 164-169
CwEnter ==
    /\ h_fn = "get_cw" /\ l_pc = "entry" /\ led_pc = 0
    /\ IF l_arg = ""
       THEN LogicRaise("ValueError") /\ UNCHANGED ledVars
       ELSE l_pc' = "login" /\ SetLed("yellow") /\ UNCHANGED l_out
    /\ UNCHANGED <<l_arg, calls>>

\* lines 170-175
CwLogin ==
    /\ h_fn = "get_cw" /\ l_pc = "login" /\ led_pc = 0
    /\ Called("login")
    /\ \/ l_pc' = "request" /\ UNCHANGED <<l_out, ledVars>>
       \/ \E exc \in CloudExceptions : LogicCloudFail(exc)
    /\ UNCHANGED l_arg

\* lines 176-187
CwRequest ==
    /\ h_fn = "get_cw" /\ l_pc = "request" /\ led_pc = 0
    /\ Called("cw")
    /\ \/ LogicReturn("cw")
       \/ \E exc \in CloudExceptions : LogicCloudFail(exc)
    /\ UNCHANGED l_arg

\* lines 189-194
RwEnter ==
    /\ h_fn = "get_rw" /\ l_pc = "entry" /\ led_pc = 0
    /\ IF l_arg = ""
       THEN LogicRaise("ValueError") /\ UNCHANGED ledVars
       ELSE l_pc' = "convert" /\ SetLed("yellow") /\ UNCHANGED l_out
    /\ UNCHANGED <<l_arg, calls>>

\* lines 196-198: int(cw, 16) raises ValueError on a text that is not
\* hexadecimal; sga.intToList is an attribute of the sga module in use, or
\* raises AttributeError (src/sga.py defines none)
RwConvert ==
    /\ h_fn = "get_rw" /\ l_pc = "convert" /\ led_pc = 0
    /\ IF l_arg = "xyz"
       THEN LogicFail("ValueError")
       ELSE \/ LogicFail("AttributeError")
            \/ l_pc' = "device" /\ UNCHANGED <<l_out, ledVars>>
    /\ UNCHANGED <<l_arg, calls>>

\* lines 198-204: sga.do_rw_only returns a text or raises
RwDevice ==
    /\ h_fn = "get_rw" /\ l_pc = "device" /\ led_pc = 0
    /\ \/ LogicReturn("rw")
       \/ \E exc \in DeviceExceptions : LogicFail(exc)
    /\ UNCHANGED <<l_arg, calls>>

\* the logic function of the job has returned or raised, its LED writes included
LogicEnded ==
    /\ led_pc = 0
    /\ IF h_fn = "authenticate" THEN a_pc \in {"returned", "raised"}
                                ELSE l_pc \in {"returned", "raised"}
LogicRaised == IF h_fn = "authenticate" THEN a_pc = "raised" ELSE l_pc = "raised"
LogicException == IF h_fn = "authenticate" THEN a_out.outcome ELSE l_out.outcome

\* lines 85-110: the result of the job
JobResult ==
    IF LogicRaised THEN Result(TRUE, FALSE, ErrorText(LogicException), 1)
    ELSE IF h_fn = "status" THEN status_logic(1)
    ELSE IF h_fn = "authenticate" /\ ~a_out.success THEN Denied(1)
    ELSE Succeeded(1)

\* lines 104-118: the worker stores the result
WorkerStoreResult ==
    /\ j_pc = "running"
    /\ LogicEnded
    /\ j_result' = JobResult
    /\ j_pc' = "stored"
    /\ UNCHANGED <<h_pc, h_fn, h_data, h_http, h_body, l_pc, l_arg, l_out, authVars, calls,
                   ledVars>>

\* lines 260-267 and the `return jsonify(result)` of the endpoint
ApiReturn ==
    /\ h_pc = "waiting"
    /\ j_pc = "stored"
    /\ j_pc' = "taken"
    /\ Respond(200, j_result)
    /\ UNCHANGED <<h_fn, h_data, j_result, l_pc, l_arg, l_out, authVars, calls, ledVars>>

\* lines 270-276 and the `return jsonify(result)` of the endpoint: the wait
\* of the endpoint ran out before the result was stored
ApiTimeout ==
    /\ h_pc = "waiting"
    /\ j_pc \in {"queued", "running"}
    /\ Respond(200, TimedOutResult(1))
    /\ UNCHANGED <<h_fn, h_data, j_pc, j_result, l_pc, l_arg, l_out, authVars, calls, ledVars>>

InitLogic ==
    /\ InitServer
    /\ OthersIdle
    /\ MainIdle
    /\ CodecIdle
    /\ FrameIdle
    /\ AuthIdle
    /\ h_pc = "recv"
    /\ h_fn \in Endpoints
    /\ h_data \in RequestData(h_fn)
    /\ h_http = 0
    /\ h_body = NoResult
    /\ j_pc = "none"
    /\ j_result = NoResult
    /\ l_pc = "off"
    /\ l_arg = ""
    /\ l_out = NoLogicOut

NextLogic ==
    \/ ApiEnqueue /\ UNCHANGED nonLogicVars
    \/ WorkerCall /\ UNCHANGED nonLogicVars
    \/ IdentityEnter /\ UNCHANGED <<h_pc, h_fn, h_data, h_http, h_body, j_pc, j_result, authVars, nonLogicVars>>
    \/ IdentityDevice /\ UNCHANGED <<h_pc, h_fn, h_data, h_http, h_body, j_pc, j_result, authVars, nonLogicVars>>
    \/ CwEnter /\ UNCHANGED <<h_pc, h_fn, h_data, h_http, h_body, j_pc, j_result, authVars, nonLogicVars>>
    \/ CwLogin /\ UNCHANGED <<h_pc, h_fn, h_data, h_http, h_body, j_pc, j_result, authVars, nonLogicVars>>
    \/ CwRequest /\ UNCHANGED <<h_pc, h_fn, h_data, h_http, h_body, j_pc, j_result, authVars, nonLogicVars>>
    \/ RwEnter /\ UNCHANGED <<h_pc, h_fn, h_data, h_http, h_body, j_pc, j_result, authVars, nonLogicVars>>
    \/ RwConvert /\ UNCHANGED <<h_pc, h_fn, h_data, h_http, h_body, j_pc, j_result, authVars, nonLogicVars>>
    \/ RwDevice /\ UNCHANGED <<h_pc, h_fn, h_data, h_http, h_body, j_pc, j_result, authVars, nonLogicVars>>
    \/ AuthStep /\ UNCHANGED <<logicVars, nonLogicVars>>
    \/ LedWrite /\ UNCHANGED <<authVars, calls, logicVars, nonLogicVars>>
    \/ WorkerStoreResult /\ UNCHANGED nonLogicVars
    \/ ApiReturn /\ UNCHANGED nonLogicVars
    \/ ApiTimeout /\ UNCHANGED nonLogicVars

SpecLogic == InitLogic /\ [][NextLogic]_vars

(* Claims about one request (SpecLogic) *)

\* the logic function is past its entry and has not ended
LogicUnderWay ==
    IF h_fn = "authenticate"
    THEN a_pc \in {"login", "submit", "sleep", "request", "claim"}
    ELSE l_pc \in {"login", "request", "convert", "device"}
LogicSucceeded ==
    IF h_fn = "authenticate" THEN a_pc = "returned" /\ a_out.success
                             ELSE l_pc = "returned"

\* C14: in each of the four logic functions the LED is yellow once the
\* function is entered, green when it has returned success and red when it
\* has ended in an error, the errors for missing or empty inputs included.
C14_LedFollowsOutcome ==
    (h_fn \in Endpoints \ {"status"} /\ j_pc = "running" /\ led_pc = 0)
    => /\ LogicUnderWay => LedShows("yellow")
       /\ (LogicEnded /\ LogicSucceeded) => LedShows("green")
       /\ (LogicEnded /\ LogicRaised) => LedShows("red")

\* C15: exactly one of the three LED lines is high in every state, the
\* states between the writes of one set_led_status call included.
C15_OneColour == Cardinality(Asserted) = 1

\* a required input of the request is missing or empty
InputMissing ==
    /\ RequiredFields(h_fn) # {}
    /\ \/ ~h_data.present
       \/ \E f \in RequiredFields(h_fn) : h_data[f] \in {"absent", ""}

\* C16: a failed request is answered with 400 or 500, never with 200, and a
\* request with a missing or empty required input is answered with 400.
C16_HttpStatus ==
    (h_pc = "responded")
    => /\ (h_body.has_success /\ ~h_body.success) => h_http \in {400, 500}
       /\ InputMissing => h_http = 400

----------------------------------------------------------------------------
(* SpecFrame: the outbound frames of sga.py and intToList of Authentication.py *)

MaxK == 2             \* largest k for which 256^k is converted

l_command_ident == <<1, 0, 0, 0>>
l_command_bist == <<128, 0, 0, 0>>
l_command_cr == <<3, 0, 8, 0>>
l_command_cr_ek == <<7, 0, 8, 0>>

\* [0]*n
Zeros(n) == [i \in 1..n |-> 0]

assemble_bist_l == l_command_bist \o Zeros(68)
assemble_id_l == l_command_ident \o <<0>> \o Zeros(32)
assemble_cw_l(l_challenge) == l_command_cr \o <<0>> \o l_challenge \o <<0>> \o Zeros(49)
assemble_ek_l(l_challenge) == l_command_cr_ek \o <<0>> \o l_challenge \o <<0>> \o Zeros(65)

\* (~e) & 0xFF
list_invert(l) == [i \in 1..Len(l) |-> 255 - l[i]]

\* ceil(log(number, 256)) for number >= 1: the least L with 256^L >= number.
\* math.log works on doubles; for the numbers converted here (below 256^6)
\* its result is an integer exactly when number is a power of 256 and lies
\* strictly between the neighbouring integers otherwise.
RECURSIVE FloorLog256(_)
FloorLog256(m) == IF m < 256 THEN 0 ELSE 1 + FloorLog256(m \div 256)
CeilLog256(number) == IF number = 1 THEN 0 ELSE 1 + FloorLog256(number - 1)

\* L1 == L2: log(number, 256) is an integer
RECURSIVE LogIsInteger(_)
LogIsInteger(number) ==
    \/ number = 1
    \/ number % 256 = 0 /\ LogIsInteger(number \div 256)

\* (number & (0xff << 8*i)) >> 8*i
ByteAt(number, i) == (number \div (256 ^ i)) % 256

\* mutant: the `if L1 == L2: L2 += 1` step is left out
intToList_no_increment(number) ==
    LET L2 == CeilLog256(number)
    IN [j \in 1..L2 |-> ByteAt(number, L2 - j)]

\* Authentication.py lines 39-45, for number >= 1 (log(0, 256) raises ValueError)
intToList(number) ==
    LET L1 == CeilLog256(number)
        L2 == IF LogIsInteger(number) THEN L1 + 1 ELSE L1
    IN [j \in 1..L2 |-> ByteAt(number, L2 - j)]

\* the integers converted: the powers of 256 and their neighbours, and 0
Numbers ==
    {0} \cup {n \in {256 ^ k + d : k \in 0..MaxK, d \in {-1, 0, 1, 2, 255}} : n >= 1}

\* the 16-byte CW list of get_rw_logic and main, the 32-byte PCCID list of
\* do_bist_testsuite and its inverse
Cw16 == [i \in 1..16 |-> i]
Pccid32 == [i \in 1..32 |-> i - 1]

\* the challenge lists the callers of assemble_cw_l and assemble_ek_l pass
Challenges ==
    {intToList(n) : n \in Numbers \ {0}} \cup {Cw16, Pccid32, list_invert(Pccid32)}

FrameDone(op, outcome, list) ==
    /\ f_pc = "ready"
    /\ f_pc' = "done"
    /\ f_op' = op
    /\ f_out' = [outcome |-> outcome, list |-> list]
    /\ UNCHANGED <<f_number, f_list>>

IntToList ==
    IF f_number = 0
    THEN FrameDone("intToList", "ValueError", <<>>)
    ELSE FrameDone("intToList", "ok", intToList(f_number))

AssembleBist == FrameDone("assemble_bist_l", "ok", assemble_bist_l)
AssembleId == FrameDone("assemble_id_l", "ok", assemble_id_l)
AssembleCw == FrameDone("assemble_cw_l", "ok", assemble_cw_l(f_list))
AssembleEk == FrameDone("assemble_ek_l", "ok", assemble_ek_l(f_list))

\* ---- the CW text, int(cw, 16) and the challenge list made from it

MaxWideK == 370       \* largest k of the wide integers 256^k converted

RECURSIVE BytesOf(_)
\* the bytes of number, most significant first, without leading zero bytes
BytesOf(number) ==
    IF number = 0 THEN <<>> ELSE Append(BytesOf(number \div 256), number % 256)

\* a CW as the cloud sends it: the number as 32 hex characters (16 bytes)
CwText(number) == JoinHex(Zeros(16 - Len(BytesOf(number))) \o BytesOf(number))

RECURSIVE IntOfHex(_)
\* int(s, 16) of a text of hex digits
IntOfHex(s) ==
    IF s = <<>> THEN 0 ELSE 16 * IntOfHex(SubSeq(s, 1, Len(s) - 1)) + HexVal(s[Len(s)])

\* Authentication.py line 59 and sga.py lines 293-294 (get_rw_logic lines
\* 197-199): the CW text is converted to a number, the number to the
\* challenge list, and the CR frame is built around that list
ChallengeFrame ==
    LET cw_int == IntOfHex(CwText(f_number))
    IN IF cw_int = 0
       THEN FrameDone("do_rw_only", "ValueError", <<>>)
       ELSE FrameDone("do_rw_only", "ok", assemble_cw_l(intToList(cw_int)))

RECURSIVE listToInt(_)
\* Authentication.py lines 35-37: reduce(lambda x,y:(x<<8)+y, lst), lst not empty
listToInt(lst) ==
    IF Len(lst) = 1 THEN lst[1]
    ELSE 256 * listToInt(SubSeq(lst, 1, Len(lst) - 1)) + lst[Len(lst)]

\* listToInt applied to the list intToList has returned
ListToInt ==
    /\ f_pc = "done"
    /\ f_op = "intToList"
    /\ f_out.outcome = "ok"
    /\ f_pc' = "back"
    /\ f_op' = "listToInt"
    /\ f_out' = [outcome |-> "ok", list |-> <<listToInt(f_out.list)>>]
    /\ UNCHANGED <<f_number, f_list>>

\* ---- integers too wide for the model's integers, held as their bytes, most
\* ---- significant first: the powers 256^k

WidePower(k) == <<1>> \o Zeros(k)
WidePowers == {WidePower(k) : k \in (MaxWideK - 1)..MaxWideK}

\* the k for which log(256**k, 256) of line 41 evaluates below k in IEEE
\* double arithmetic: 369.99999999999994 for k = 370, and so on up to 381
LowLogExponents == 370..381

\* (number & (0xff << 8*i)) >> 8*i of the number with these bytes
WideByteAt(bytes, i) == IF i < Len(bytes) THEN bytes[Len(bytes) - i] ELSE 0

\* Authentication.py lines 39-45 for the number 256^k given as WidePower(k):
\* L1 is k or just below k, L2 is k in both cases, and the step L2 += 1 is
\* taken only when L1 == L2
intToListWide(bytes) ==
    LET k == Len(bytes) - 1
        L2 == IF k \in LowLogExponents THEN k ELSE k + 1
    IN [j \in 1..L2 |-> WideByteAt(bytes, L2 - j)]

\* Authentication.py lines 35-37, the result as bytes without leading zeros
listToIntWide(lst) ==
    LET nonzero == {i \in 1..Len(lst) : lst[i] # 0}
    IN IF nonzero = {} THEN <<>>
       ELSE SubSeq(lst, CHOOSE i \in nonzero : \A j \in nonzero : i <= j, Len(lst))

IntToListWide ==
    /\ f_list \in WidePowers
    /\ FrameDone("intToList_wide", "ok", intToListWide(f_list))

ListToIntWide ==
    /\ f_pc = "done"
    /\ f_op = "intToList_wide"
    /\ f_pc' = "back"
    /\ f_op' = "listToInt_wide"
    /\ f_out' = [outcome |-> "ok", list |-> listToIntWide(f_out.list)]
    /\ UNCHANGED <<f_number, f_list>>

InitFrame ==
    /\ InitServer
    /\ OthersIdle
    /\ MainIdle
    /\ CodecIdle
    /\ AuthIdle
    /\ LogicIdle
    /\ f_pc = "ready"
    /\ f_number \in Numbers
    /\ f_list \in Challenges \cup WidePowers
    /\ f_op = "none"
    /\ f_out = NoFrameOut

NextFrame ==
    \/ IntToList /\ UNCHANGED nonFrameVars
    \/ AssembleBist /\ UNCHANGED nonFrameVars
    \/ AssembleId /\ UNCHANGED nonFrameVars
    \/ AssembleCw /\ UNCHANGED nonFrameVars
    \/ AssembleEk /\ UNCHANGED nonFrameVars
    \/ ChallengeFrame /\ UNCHANGED nonFrameVars
    \/ ListToInt /\ UNCHANGED nonFrameVars
    \/ IntToListWide /\ UNCHANGED nonFrameVars
    \/ ListToIntWide /\ UNCHANGED nonFrameVars

SpecFrame == InitFrame /\ [][NextFrame]_vars

(* Claims about the frames (SpecFrame) *)

AssembleOps == {"assemble_bist_l", "assemble_id_l", "assemble_cw_l", "assemble_ek_l"}
Opcode(op) ==
    CASE op = "assemble_bist_l" -> 128
      [] op = "assemble_id_l" -> 1
      [] op = "assemble_cw_l" -> 3
      [] op = "assemble_ek_l" -> 7

\* C11: every frame an assemble_* function builds is exactly 72 bytes long
\* and carries the command opcode in its first byte.
C11_FrameLength ==
    (f_pc = "done" /\ f_op \in AssembleOps)
    => (Len(f_out.list) = 72 /\ f_out.list[1] = Opcode(f_op))

PowersOf256 == {256 ^ k : k \in 0..MaxK}
Exponent(n) == CHOOSE k \in 0..MaxK : 256 ^ k = n

\* C12 as stated: intToList(256^k) is a list of k+2 elements.
C12_PowerLengthPlusTwo ==
    (f_pc = "done" /\ f_op = "intToList" /\ f_number \in PowersOf256)
    => Len(f_out.list) = Exponent(f_number) + 2

\* C12 (amended): intToList(256^k) is the list of k+1 elements 1, 0, ..., 0:
\* as many bytes as 256^k needs, none more.
C12_PowerLength ==
    (f_pc = "done" /\ f_op = "intToList" /\ f_number \in PowersOf256)
    => /\ f_out.outcome = "ok"
       /\ Len(f_out.list) = Exponent(f_number) + 1
       /\ f_out.list = <<1>> \o Zeros(Exponent(f_number))

C12_Witness ==
    /\ f_pc = "done" /\ f_op = "intToList"
    /\ f_number = 256
    /\ f_out.list = <<1, 0>>

\* C27: for every CW of 32 hex characters, leading 00 bytes included, the
\* conversion gives a challenge list of exactly 16 bytes, so that the CR frame
\* built from it has the length and the field offsets it has for any other CW.
C27_ChallengeLength ==
    (f_pc = "done" /\ f_op = "do_rw_only")
    => /\ f_out.outcome = "ok"
       /\ Len(f_out.list) = Len(assemble_cw_l(Cw16))
       /\ SubSeq(f_out.list, Len(f_out.list) - 49, Len(f_out.list)) = Zeros(50)

\* C28: for every integer n >= 1, listToInt(intToList(n)) = n and every
\* element of intToList(n) is in 0..255.
C28_RoundTrip ==
    /\ (f_pc = "done" /\ f_op \in {"intToList", "intToList_wide"})
       => \A i \in 1..Len(f_out.list) : f_out.list[i] \in 0..255
    /\ (f_pc = "back" /\ f_op = "listToInt") => f_out.list = <<f_number>>
    /\ (f_pc = "back" /\ f_op = "listToInt_wide") => f_out.list = f_list

----------------------------------------------------------------------------
(* SpecMain: main() of Authentication.py, one authentication attempt *)

\* what the device and the cloud can answer
Pccids == {"pccid1", "pccid2"}
ChallengeWords == {"cw1", "cw2"}
TransactionIds == {"T1", "T2"}
Verdicts == {"NOT_READY", "AUTH_OK", "CLAIM_ID", "AUTH_FAILED"}

\* the RW the device computes from a challenge: sga.do_rw_only sends the CW
\* and returns the response field of the reply
DeviceRw(cw) == <<"rw", cw>>

Call(step, pccid, cw, rw, transactionid) ==
    [step |-> step, pccid |-> pccid, cw |-> cw, rw |-> rw, transactionid |-> transactionid]

\* an exception ends main()
MainCrash == m_pc' = "crashed"

\* lines 49-50: gpio_setup
MainSetup ==
    /\ m_pc = "start"
    /\ led' = LedAfterSetup
    /\ m_pc' = "get_pccid"
    /\ UNCHANGED <<m_pccid, m_cw, m_transactionid, m_rw, m_transactionidresponse,
                   m_authenticationresult, m_log, m_polled>>

\* line 53
MainGetPccid ==
    /\ m_pc = "get_pccid"
    /\ m_log' = Append(m_log, Call("get_pccid", "", "", "", ""))
    /\ \/ \E id \in Pccids : m_pccid' = id /\ m_pc' = "login"
       \/ MainCrash /\ UNCHANGED m_pccid
    /\ UNCHANGED <<led, m_cw, m_transactionid, m_rw, m_transactionidresponse,
                   m_authenticationresult, m_polled>>

\* line 55
MainLogin ==
    /\ m_pc = "login"
    /\ m_log' = Append(m_log, Call("login", "", "", "", ""))
    /\ \/ m_pc' = "get_cw"
       \/ MainCrash
    /\ UNCHANGED <<led, m_pccid, m_cw, m_transactionid, m_rw, m_transactionidresponse,
                   m_authenticationresult, m_polled>>

\* line 57: the cloud issues a challenge and a transaction id for the PCCID
MainGetCw ==
    /\ m_pc = "get_cw"
    /\ m_log' = Append(m_log, Call("get_cw", m_pccid, "", "", ""))
    /\ \/ \E cw \in ChallengeWords, t \in TransactionIds :
            /\ m_cw' = cw
            /\ m_transactionid' = t
            /\ m_pc' = "do_rw_only"
       \/ MainCrash /\ UNCHANGED <<m_cw, m_transactionid>>
    /\ UNCHANGED <<led, m_pccid, m_rw, m_transactionidresponse, m_authenticationresult,
                   m_polled>>

\* line 59
MainDoRwOnly ==
    /\ m_pc = "do_rw_only"
    /\ m_log' = Append(m_log, Call("do_rw_only", "", m_cw, "", ""))
    /\ \/ m_rw' = DeviceRw(m_cw) /\ m_pc' = "submit"
       \/ MainCrash /\ UNCHANGED m_rw
    /\ UNCHANGED <<led, m_pccid, m_cw, m_transactionid, m_transactionidresponse,
                   m_authenticationresult, m_polled>>

\* line 61: the cloud answers with a transaction id of its own
MainSubmit ==
    /\ m_pc = "submit"
    /\ m_log' = Append(m_log, Call("submit", m_pccid, m_cw, m_rw, m_transactionid))
    /\ \/ \E t \in TransactionIds :
            /\ m_transactionidresponse' = t
            /\ m_authenticationresult' = "NOT_READY"
            /\ m_pc' = "poll"
       \/ MainCrash /\ UNCHANGED <<m_transactionidresponse, m_authenticationresult>>
    /\ UNCHANGED <<led, m_pccid, m_cw, m_transactionid, m_rw, m_polled>>

\* mutant: the status is polled for the transaction id do_submit_rw returned
PolledTransactionOfResponse(transactionid, transactionidresponse) == transactionidresponse

\* line 63: do_retrieve_result is given the transactionid of line 57
PolledTransaction(transactionid, transactionidresponse) == transactionid

\* line 63 over sga.py lines 402-417: one turn of the polling loop
MainPoll ==
    /\ m_pc = "poll"
    /\ m_authenticationresult = "NOT_READY"
    /\ m_polled' = m_polled \cup {PolledTransaction(m_transactionid, m_transactionidresponse)}
    /\ \/ \E v \in Verdicts : m_authenticationresult' = v /\ UNCHANGED m_pc
       \/ MainCrash /\ UNCHANGED m_authenticationresult
    /\ UNCHANGED <<led, m_pccid, m_cw, m_transactionid, m_rw, m_transactionidresponse, m_log>>

\* sga.py lines 419-424 and Authentication.py lines 67-70: the loop is left,
\* then gpio_gry_set makes its three writes (lines 30-33)
MainResolve ==
    /\ m_pc = "poll"
    /\ m_authenticationresult # "NOT_READY"
    /\ m_pc' = "gry1"
    /\ UNCHANGED <<led, m_pccid, m_cw, m_transactionid, m_rw, m_transactionidresponse,
                   m_authenticationresult, m_log, m_polled>>

MainGrySet ==
    /\ m_pc \in {"gry1", "gry2", "gry3"}
    /\ LET ok == m_authenticationresult \in {"CLAIM_ID", "AUTH_OK"}
       IN led' = CASE m_pc = "gry1" -> [led EXCEPT !.g = ok]
                   [] m_pc = "gry2" -> [led EXCEPT !.r = ~ok]
                   [] m_pc = "gry3" -> [led EXCEPT !.y = FALSE]
    /\ m_pc' = CASE m_pc = "gry1" -> "gry2"
                 [] m_pc = "gry2" -> "gry3"
                 [] m_pc = "gry3" -> "done"
    /\ UNCHANGED <<m_pccid, m_cw, m_transactionid, m_rw, m_transactionidresponse,
                   m_authenticationresult, m_log, m_polled>>

InitMain ==
    /\ InitServer
    /\ OthersIdle
    /\ CodecIdle
    /\ AuthIdle
    /\ LogicIdle
    /\ FrameIdle
    /\ m_pc = "start"
    /\ m_pccid = ""
    /\ m_cw = ""
    /\ m_transactionid = ""
    /\ m_rw = ""
    /\ m_transactionidresponse = ""
    /\ m_authenticationresult = ""
    /\ m_log = <<>>
    /\ m_polled = {}

NextMain ==
    \/ MainSetup /\ UNCHANGED nonMainVars
    \/ MainGetPccid /\ UNCHANGED nonMainVars
    \/ MainLogin /\ UNCHANGED nonMainVars
    \/ MainGetCw /\ UNCHANGED nonMainVars
    \/ MainDoRwOnly /\ UNCHANGED nonMainVars
    \/ MainSubmit /\ UNCHANGED nonMainVars
    \/ MainPoll /\ UNCHANGED nonMainVars
    \/ MainResolve /\ UNCHANGED nonMainVars
    \/ MainGrySet /\ UNCHANGED nonMainVars

SpecMain == InitMain /\ [][NextMain]_vars

(* Claims about one attempt (SpecMain) *)

AttemptOrder == <<"get_pccid", "login", "get_cw", "do_rw_only", "submit">>
Logged(step) == {i \in 1..Len(m_log) : m_log[i].step = step}

\* C19: the calls of one attempt are made in the order identity read, login,
\* CW acquisition, RW computation, RW submission, verdict polling, each once
\* and each after the previous one returned; the RW is computed from the CW
\* of this attempt, and the transaction id issued with that CW is the one
\* submitted with the RW and the only one polled.
C19_LinearAttempt ==
    /\ Len(m_log) <= Len(AttemptOrder)
    /\ \A i \in 1..Len(m_log) : m_log[i].step = AttemptOrder[i]
    /\ \A i \in Logged("get_cw") : m_log[i].pccid = m_pccid
    /\ \A i \in Logged("do_rw_only") : m_log[i].cw = m_cw
    /\ \A i \in Logged("submit") :
         /\ m_log[i].pccid = m_pccid
         /\ m_log[i].cw = m_cw
         /\ m_log[i].rw = DeviceRw(m_cw)
         /\ m_log[i].transactionid = m_transactionid
    /\ m_polled # {} => (Logged("submit") # {} /\ m_polled = {m_transactionid})
    /\ m_pc \in {"gry1", "gry2", "gry3", "done"} => m_polled = {m_transactionid}

C19_Witness ==
    /\ m_pc = "done"
    /\ Len(m_log) = 5
    /\ m_transactionid = "T1" /\ m_transactionidresponse = "T2"
    /\ m_polled = {"T1"}
    /\ m_authenticationresult = "CLAIM_ID"

----------------------------------------------------------------------------
(* SpecDevice: the worker runs get_identity jobs one after another           *)
(* (pi_api_server.py lines 149-162, sga.py lines 281-289 and 109-118)        *)
(* against a device whose successive replies are scripted.                   *)

MaxJobs == 3          \* get_identity jobs queued at the start
ScriptLen == 3        \* replies the device has ready at the start
MaxDeviceTime == 2    \* clock values followed

\* what ser.read(512) returns when the 0.5 s timeout expires with no reply
NoDataReply == <<>>
\* a complete reply to the identify frame: 37 bytes in hex and the terminator
IdFrameBytes == [i \in 1..37 |-> i - 1]
IdFrameReply == JoinHex(IdFrameBytes) \o <<"\r">>
DeviceScripts ==
    UNION {[1..n -> {NoDataReply, IdFrameReply}] : n \in 0..ScriptLen}

IdentityResult(text) == [success |-> TRUE, identity |-> text, error |-> ""]
IdentityFailure(e) == [success |-> FALSE, identity |-> <<>>, error |-> e]

\* line 151 and line 283 up to the call of do_ser_transfer_l
IdentityStart ==
    /\ d_pc = "idle"
    /\ d_pending > 0
    /\ d_pending' = d_pending - 1
    /\ d_pc' = "open"
    /\ UNCHANGED <<d_script, d_script0, d_reply, d_reads, d_results, d_now, d_last_close, d_gap>>

\* sga.py line 110: ser_open, with nothing before it that waits
DeviceOpen ==
    /\ d_pc = "open"
    /\ d_gap' = IF d_last_close >= 0 THEN d_now - d_last_close ELSE d_gap
    /\ d_pc' = "exchange"
    /\ UNCHANGED <<d_script, d_script0, d_pending, d_reply, d_reads, d_results, d_now,
                   d_last_close>>

\* sga.py lines 111-113: one write and one read; a silent device gives b''
DeviceExchange ==
    /\ d_pc = "exchange"
    /\ d_reply' = IF d_script = <<>> THEN NoDataReply ELSE Head(d_script)
    /\ d_script' = IF d_script = <<>> THEN <<>> ELSE Tail(d_script)
    /\ d_reads' = d_reads + 1
    /\ d_pc' = "close"
    /\ UNCHANGED <<d_script0, d_pending, d_results, d_now, d_last_close, d_gap>>

\* sga.py line 115
DeviceClose ==
    /\ d_pc = "close"
    /\ d_last_close' = d_now
    /\ d_pc' = "decode"
    /\ UNCHANGED <<d_script, d_script0, d_pending, d_reply, d_reads, d_results, d_now, d_gap>>

\* sga.py lines 116-118 and 284-289, pi_api_server.py lines 155-162 and
\* 107-110: the reply is decoded and sliced, and the job gets its result
IdentityFinish ==
    /\ d_pc = "decode"
    /\ d_results' = Append(d_results,
                       IF DecodeRaises(d_reply)
                       THEN IdentityFailure(ErrorText("ValueError"))
                       ELSE IdentityResult(get_pccid(DecodeReply(d_reply))))
    /\ d_reply' = <<>>
    /\ d_pc' = "idle"
    /\ UNCHANGED <<d_script, d_script0, d_pending, d_reads, d_now, d_last_close, d_gap>>

\* time passes, at any point of the worker's run
DeviceTick ==
    /\ d_pc \in {"idle", "open", "exchange", "close", "decode"}
    /\ d_now < MaxDeviceTime
    /\ d_now' = d_now + 1
    /\ UNCHANGED <<d_pc, d_script, d_script0, d_pending, d_reply, d_reads, d_results,
                   d_last_close, d_gap>>

InitDevice ==
    /\ InitServer
    /\ CodecIdle
    /\ AuthIdle
    /\ LogicIdle
    /\ FrameIdle
    /\ MainIdle
    /\ WireIdle
    /\ MqttIdle
    /\ d_pc = "idle"
    /\ d_script \in DeviceScripts
    /\ d_script0 = d_script
    /\ d_pending \in 1..MaxJobs
    /\ d_reply = <<>>
    /\ d_reads = 0
    /\ d_results = <<>>
    /\ d_now = 0
    /\ d_last_close = -1
    /\ d_gap = -1

NextDevice ==
    \/ IdentityStart /\ UNCHANGED nonDeviceVars
    \/ DeviceOpen /\ UNCHANGED nonDeviceVars
    \/ DeviceExchange /\ UNCHANGED nonDeviceVars
    \/ DeviceClose /\ UNCHANGED nonDeviceVars
    \/ IdentityFinish /\ UNCHANGED nonDeviceVars
    \/ DeviceTick /\ UNCHANGED nonDeviceVars

SpecDevice == InitDevice /\ [][NextDevice]_vars

\* C21: when the device gives no data to the first two reads and a complete
\* identity frame to the third, the first get_identity request ends with
\* success and the identity of that frame, after at most three reads.
C21_RetriedUntilFrame ==
    (d_script0 = <<NoDataReply, NoDataReply, IdFrameReply>> /\ Len(d_results) >= 1)
        => d_results[1] = IdentityResult(get_pccid(IdFrameBytes))

\* C22: between the end of one device transfer and the start of the next
\* a quiet period passes.
C22_QuietPeriod == d_gap = -1 \/ d_gap > 0

----------------------------------------------------------------------------
(* SpecWire: the text do_ser_transfer_l writes (sga.py line 111), the reply  *)
(* the link delivers for it and the list decoded from the reply (line 116). *)
(* The device answers with the bytes it was sent, in one of several shapes. *)

MaxWireLen == 3       \* bytes in the longer lists sent

WireLists ==
    {<<b>> : b \in 0..255}
        \cup UNION {[1..n -> {0, 10, 171, 255}] : n \in 0..MaxWireLen}
        \cup {assemble_id_l}

\* the shapes of a reply: the hex text and the terminator as sent; the hex
\* text alone; CR LF at the end; a space or CR LF between the pairs; the last
\* hex digit lost, without and with the terminator
WireFormats == {"cr", "bare", "crlf", "spaced", "lines", "cut", "cut_cr"}

RECURSIVE Separated(_, _)
\* the pairs of hex text h with sep after each pair but the last
Separated(h, sep) ==
    IF Len(h) <= 2 THEN h ELSE SubSeq(h, 1, 2) \o sep \o Separated(SubSeq(h, 3, Len(h)), sep)

HexText(text) == SelectSeq(text, LAMBDA c : c \notin Whitespace)

Reformat(fmt, text) ==
    LET h == HexText(text)
    IN CASE fmt = "cr" -> text
         [] fmt = "bare" -> h
         [] fmt = "crlf" -> h \o <<"\r", "\n">>
         [] fmt = "spaced" -> Separated(h, <<" ">>) \o <<"\r">>
         [] fmt = "lines" -> Separated(h, <<"\r", "\n">>) \o <<"\r">>
         [] fmt = "cut" -> SubSeq(h, 1, Len(h) - 1)
         [] fmt = "cut_cr" -> SubSeq(h, 1, Len(h) - 1) \o <<"\r">>

\* sga.py line 111: the frame as lowercase hex pairs and a carriage return
WireEncode ==
    /\ x_pc = "start"
    /\ x_text' = JoinHex(x_list) \o <<"\r">>
    /\ x_pc' = "sent"
    /\ UNCHANGED <<x_list, x_fmt, x_out>>

\* sga.py lines 112-113: the text is written and the reply read
WireReply ==
    /\ x_pc = "sent"
    /\ x_text' = Reformat(x_fmt, x_text)
    /\ x_pc' = "read"
    /\ UNCHANGED <<x_list, x_fmt, x_out>>

\* sga.py line 116
WireDecode ==
    /\ x_pc = "read"
    /\ x_out' = IF DecodeRaises(x_text)
                THEN [outcome |-> "ValueError", list |-> <<>>]
                ELSE [outcome |-> "ok", list |-> DecodeReply(x_text)]
    /\ x_pc' = "done"
    /\ UNCHANGED <<x_list, x_fmt, x_text>>

InitWire ==
    /\ InitServer
    /\ CodecIdle
    /\ AuthIdle
    /\ LogicIdle
    /\ FrameIdle
    /\ MainIdle
    /\ DeviceIdle
    /\ MqttIdle
    /\ x_pc = "start"
    /\ x_list \in WireLists
    /\ x_fmt \in {f \in WireFormats : f \in {"cut", "cut_cr"} => x_list # <<>>}
    /\ x_text = <<>>
    /\ x_out = NoWireOut

NextWire ==
    \/ WireEncode /\ UNCHANGED nonWireVars
    \/ WireReply /\ UNCHANGED nonWireVars
    \/ WireDecode /\ UNCHANGED nonWireVars

SpecWire == InitWire /\ [][NextWire]_vars

WireOk(l) == [outcome |-> "ok", list |-> l]

\* C23: a byte list sent and received back in the same hex form, with or
\* without the trailing carriage return, decodes to the list that was sent.
C23_RoundTrip ==
    (x_pc = "done" /\ x_fmt \in {"cr", "bare"}) => x_out = WireOk(x_list)

C23_Witness ==
    /\ x_pc = "done"
    /\ x_fmt = "bare"
    /\ x_list = <<10, 0, 255>>
    /\ x_text = <<"0", "a", "0", "0", "f", "f">>
    /\ x_out = WireOk(<<10, 0, 255>>)

\* C24: a reply with a space or CR LF between its hex pairs decodes without
\* error to the bytes it would give with those characters removed.
C24_WhitespaceIgnored ==
    (x_pc = "done" /\ x_fmt \in {"spaced", "lines"}) => x_out = WireOk(x_list)

\* C25: a reply with an odd number 2n+1 of hex digits decodes to the n bytes
\* of its first n pairs; the digit left over is dropped.
C25_HalfPairDropped ==
    (x_pc = "done" /\ x_fmt \in {"cut", "cut_cr"})
        => x_out = WireOk(SubSeq(x_list, 1, Len(x_list) - 1))

----------------------------------------------------------------------------
(* Claims about job_start_times, under Spec *)

Running == {w_job[w].job_id : w \in {v \in Workers : w_pc[v] # "get"}}
StalledText == StalledResult(0).error

----------------------------------------------------------------------------
(* SpecLive: Spec with the fairness the running process gives. Each thread   *)
(* that can take a step which does not wait for the device or the cloud      *)
(* takes it, and the clock advances; a device exchange or a cloud request    *)
(* need not ever return.                                                     *)

WorkerRuns(w) ==
    \/ WorkerGet(w)
    \/ WorkerDispatch(w)
    \/ SerOpen(w)
    \/ SerClose(w)
    \/ WorkerExcept(w)
    \/ WorkerStore(w)

SpecLive ==
    /\ Spec
    /\ WF_vars(Tick /\ UNCHANGED nonServerVars)
    /\ \A p \in Producers : WF_vars(PollResponse(p) /\ UNCHANGED nonServerVars)
    /\ \A w \in Workers : WF_vars(WorkerRuns(w) /\ UNCHANGED nonServerVars)

\* the clock of the model reaches a value more than the timeout of p after
\* the start of its wait
ExpiryInRange(p) ==
    \E n \in 0..(MaxTime \div TickLen) :
        n * TickLen <= MaxTime /\ n * TickLen - p_start[p] > p_req[p].timeout

----------------------------------------------------------------------------
(* SpecMqtt: on_message (pi_api_server.py lines 401-421), the callback of    *)
(* the pub/sub client, for one message. enqueue_and_wait is taken by its     *)
(* outcome: it returns the result of the job or the timeout error.           *)

\* the payloads a message can carry: text that is not JSON, JSON that is not
\* an object, and objects with or without functionName and args
MessageFns == {"absent", "status", "get_identity", "get_cw", "get_rw", "authenticate",
               "reboot"}
MessageArgs == {"absent", "empty_list", "list_of_dict", "list_of_string", "number",
                "empty_dict", "dict"}
Messages ==
    {[json |-> "malformed", fn |-> "none", args |-> "none"],
     [json |-> "array", fn |-> "none", args |-> "none"]}
        \cup {[json |-> "object", fn |-> f, args |-> a] : f \in MessageFns, a \in MessageArgs}

\* lines 407-410: timeout_map.get(fn, 180)
TimeoutOf(fn) ==
    CASE fn = "status" -> TIMEOUT_STATUS
      [] fn = "authenticate" -> TIMEOUT_AUTH
      [] OTHER -> TIMEOUT_DEVICE

\* line 412: args[0] if args else {}; "raise" where the subscript fails
FirstArg(args) ==
    CASE args \in {"absent", "empty_list", "empty_dict", "list_of_dict"} -> "dict"
      [] args = "list_of_string" -> "string"
      [] args = "number" -> "TypeError"
      [] args = "dict" -> "KeyError"

\* the results enqueue_and_wait can return for the job (lines 85-110, 263-276)
JobOutcomes(fn, arg) ==
    {TimedOutResult(0)} \cup
    (CASE fn = "status" -> {status_logic(0)}
       [] fn \in {"absent", "reboot"} -> {UnknownFunction(0)}
       [] OTHER -> IF arg = "string"
                   THEN {Result(TRUE, FALSE, ErrorText("AttributeError"), 0)}
                   ELSE {Succeeded(0), Result(TRUE, FALSE, ErrorText("ValueError"), 0),
                         Result(TRUE, FALSE, ErrorText("SerialException"), 0)})

\* mutant: the handler of line 414 logs the error and publishes nothing
LogError(published, e) == published

\* lines 414-416
PublishError(published, e) == Append(published, Result(TRUE, FALSE, e, 0))

MqttFail(e) ==
    /\ q_pc' = "except"
    /\ q_response' = Result(TRUE, FALSE, e, 0)
    /\ UNCHANGED <<q_msg, q_fn, q_arg, q_timeout, q_published>>

\* lines 403-412 up to the call of enqueue_and_wait
MqttParse ==
    /\ q_pc = "parse"
    /\ IF q_msg.json = "malformed" THEN MqttFail("JSONDecodeError")
       ELSE IF q_msg.json = "array" THEN MqttFail("AttributeError")
       ELSE IF FirstArg(q_msg.args) \in {"TypeError", "KeyError"}
            THEN MqttFail(FirstArg(q_msg.args))
       ELSE /\ q_fn' = q_msg.fn
            /\ q_timeout' = TimeoutOf(q_msg.fn)
            /\ q_arg' = FirstArg(q_msg.args)
            /\ q_pc' = "wait"
            /\ UNCHANGED <<q_msg, q_response, q_published>>

\* line 412: enqueue_and_wait returns
MqttWait ==
    /\ q_pc = "wait"
    /\ \E result \in JobOutcomes(q_fn, q_arg) : q_response' = result
    /\ q_pc' = "publish"
    /\ UNCHANGED <<q_msg, q_fn, q_arg, q_timeout, q_published>>

\* line 413
MqttPublish ==
    /\ q_pc = "publish"
    /\ q_published' = Append(q_published, q_response)
    /\ q_pc' = "done"
    /\ UNCHANGED <<q_msg, q_fn, q_arg, q_timeout, q_response>>

\* lines 414-421
MqttExcept ==
    /\ q_pc = "except"
    /\ q_published' = PublishError(q_published, q_response.error)
    /\ q_pc' = "done"
    /\ UNCHANGED <<q_msg, q_fn, q_arg, q_timeout, q_response>>

InitMqtt ==
    /\ InitServer
    /\ CodecIdle
    /\ AuthIdle
    /\ LogicIdle
    /\ FrameIdle
    /\ MainIdle
    /\ DeviceIdle
    /\ WireIdle
    /\ q_pc = "parse"
    /\ q_msg \in Messages
    /\ q_fn = "none"
    /\ q_arg = "none"
    /\ q_timeout = 0
    /\ q_response = NoResult
    /\ q_published = <<>>

NextMqtt ==
    \/ MqttParse /\ UNCHANGED nonMqttVars
    \/ MqttWait /\ UNCHANGED nonMqttVars
    \/ MqttPublish /\ UNCHANGED nonMqttVars
    \/ MqttExcept /\ UNCHANGED nonMqttVars

SpecMqtt == InitMqtt /\ [][NextMqtt]_vars

\* C30: every message handled by on_message gets exactly one published
\* response: none before the handler ends, one when it has ended, whether the
\* payload was malformed, the function unknown, the argument list empty or
\* the wait timed out; the response of a failed handler is an error.
C30_OneResponse ==
    /\ q_pc \in {"parse", "wait", "publish", "except"} => q_published = <<>>
    /\ q_pc = "done" => Len(q_published) = 1
    /\ (q_pc = "done" /\ q_msg.json # "object")
       => (q_published[1].has_success /\ ~q_published[1].success)
    /\ (q_pc = "done" /\ q_fn \in {"absent", "reboot"})
       => q_published[1] \in {UnknownFunction(0), TimedOutResult(0)}

C30_Witness ==
    /\ q_pc = "done"
    /\ q_msg.json = "malformed"
    /\ q_published = <<Result(TRUE, FALSE, "JSONDecodeError", 0)>>

====
